---------------------------- MODULE Spec2Model ----------------------------
(***************************************************************************)
(* Model of the Steam metadata resolver of input-remapper:                 *)
(*   inputremapper/utils.py            library discovery, KeyValues        *)
(*                                     parsing, the installed-game catalog *)
(*   inputremapper/gui/components/editor.py                                *)
(*                                     SteamProcessWatcher                 *)
(*                                                                         *)
(* Representation.  A Python str is the sequence of its code points, a     *)
(* bytes object the sequence of its bytes; S("abc") writes a str literal.  *)
(* None and the other dynamically typed values are tagged records.         *)
(***************************************************************************)
EXTENDS Integers, Sequences, FiniteSets, TLC

VARIABLES
    \* SteamProcessWatcher (editor.py)
    _ticks,          \* self._ticks
    _last,           \* self._last: None or the list of the last notification
    _games,          \* self._games: the catalog captured at construction
    _paths,          \* self._paths: (normpath, appid, name), longest first
    proc,            \* the OS process table read by the current tick
    infos,           \* the dicts _inspect_pid returned in the current tick
    current_appids,  \* the list computed by the current tick
    prev_appids,     \* the list computed by the tick before (history)
    emitted,         \* did the current tick log "GAME_WATCHER change"
    poll_result,     \* what the current tick returned to GLib
    \* the installed-game catalog (utils.py)
    disk,              \* the filesystem: path -> node
    libraries,    \* the list _steam_library_dirs returns in this process
    games_call,      \* the call of get_steam_installed_games and its result
    paths_call,      \* the call of get_steam_installed_game_paths and its result
    \* _parse_binary_vdf (utils.py)
    buffer,            \* the buffer
    vdf_call,          \* the call of _parse_binary_vdf and its result
    \* SteamProcessWatcher._get_cmd_appid (editor.py)
    argv,         \* the argument list
    cmd_call,        \* the call of _get_cmd_appid and its result
    \* get_steam_shortcuts (utils.py)
    shortcuts_call,  \* the call of get_steam_shortcuts and its result
    \* the app-info cache
    cache,           \* the bytes of the app-info cache file
    appinfo_call,     \* the scan of the app-info cache and its result
    \* The text scanners
    file_value,  \* the value written between quotes in a KeyValues text file
    text_call,  \* the call of a text scanner on that file and its result
    \* The autostart files and the tray menu (user_interface.py)
    user_file,  \* the autostart file of the user
    system_file,  \* the autostart file of the system
    autostart_call,  \* the last call of set_autostart_enabled or set_autostart_hidden
    item_autostart,  \* is the tray item Autostart checked
    item_autohide,  \* is the tray item Auto Hidden checked
    autohide_sensitive  \* is the tray item Auto Hidden sensitive

watcherVars == <<_ticks, _last, _games, _paths, proc, infos, current_appids,
                 prev_appids, emitted, poll_result>>
catalogVars == <<disk, libraries, games_call, paths_call>>
vdfVars     == <<buffer, vdf_call>>
cmdVars     == <<argv, cmd_call>>
shortcutVars == <<shortcuts_call>>
appinfoVars == <<cache, appinfo_call>>
textVars == <<file_value, text_call>>
autostartVars == <<user_file, system_file, autostart_call, item_autostart, item_autohide, autohide_sensitive>>

vars == <<watcherVars, catalogVars, vdfVars, cmdVars, shortcutVars, appinfoVars, textVars, autostartVars>>

-----------------------------------------------------------------------------
(* Bounds of the model.                                                    *)

MaxTicks == 3
MaxProcs == 2

\* The app manifests and the shortcuts of an installation
MaxManifests == 2
MaxShortcuts == 1

\* The records of the shortcuts.vdf of the first Steam user
MaxRecords == 2

\* The records of an app-info cache
MaxCacheRecords == 3
MaxValue == 3

\* The pieces a binary KeyValues buffer is made of, and the digits of an id on
\* a command line
MaxPieces == 4
MaxDigits == 13

\* The number of digits of a str that int() converts; beyond it int() raises
\* ValueError (sys.int_max_str_digits, 4300 in CPython)
MaxStrDigits == 12

\* The number of nested parse_obj calls the interpreter allows before it
\* raises RecursionError (about 1000 frames in CPython)
MaxDepth == 4

-----------------------------------------------------------------------------
(* Python values.                                                          *)

None == [t |-> "None"]
List(v) == [t |-> "list", v |-> v]

\* The printable ASCII characters but the double quote (34), the backslash
\* (92) and the backtick (96), which a TLA+ string literal cannot hold.
Printable == " !#$%&'()*+,-./0123456789:;<=>?@ABCDEFGHIJKLMNOPQRSTUVWXYZ[]^_abcdefghijklmnopqrstuvwxyz{|}~"

\* The code point of the k-th character of Printable
CodeAt(k) ==
    IF k <= 2 THEN k + 31
    ELSE IF k <= 59 THEN k + 32
    ELSE IF k <= 62 THEN k + 33
    ELSE k + 34

\* ord(c) of a one-character literal, as a table
Ord == [c \in {SubSeq(Printable, k, k) : k \in 1..Len(Printable)} |->
           CodeAt(CHOOSE k \in 1..Len(Printable) : SubSeq(Printable, k, k) = c)]

\* A str literal as the sequence of its code points.
S(lit) == [i \in 1..Len(lit) |-> Ord[SubSeq(lit, i, i)]]

Min(a, b) == IF a < b THEN a ELSE b

Range(f) == {f[i] : i \in DOMAIN f}

\* The 1-based position of the first c in s (0 when there is none)
FirstIndex(s, c) ==
    IF c \in Range(s)
    THEN CHOOSE i \in 1..Len(s) : s[i] = c /\ \A j \in 1..(i - 1) : s[j] # c
    ELSE 0

\* s[i:]  (i is a 0-based Python index, 0 <= i)
From(s, i) == SubSeq(s, i + 1, Len(s))

\* s.startswith(p)
StartsWith(s, p) == Len(p) <= Len(s) /\ SubSeq(s, 1, Len(p)) = p

\* p occurs in s at the 1-based position i
OccursAt(s, p, i) == i + Len(p) - 1 <= Len(s) /\ SubSeq(s, i, i + Len(p) - 1) = p

\* p in s
Contains(s, p) == \E i \in 1..(Len(s) - Len(p) + 1) : OccursAt(s, p, i)

\* c.lower() for one code point (ASCII)
LowerChar(c) == IF c \in 65..90 THEN c + 32 ELSE c

\* s.lower()
Lower(s) == [i \in 1..Len(s) |-> LowerChar(s[i])]

\* \d and \s of a str pattern, within ASCII
Digits == 48..57
Spaces == {9, 10, 11, 12, 13, 28, 29, 30, 31, 32}

\* s.isdigit()
IsDigit(s) == Len(s) > 0 /\ \A i \in 1..Len(s) : s[i] \in Digits

\* The end (exclusive, 1-based) of the longest run of characters of the
\* class cls (a set of code points) that starts at position i of s.
RECURSIVE RunEnd(_, _, _)
RunEnd(s, i, cls) ==
    IF i <= Len(s) /\ s[i] \in cls THEN RunEnd(s, i + 1, cls) ELSE i

\* sep.join(parts)
RECURSIVE Join(_, _)
Join(sep, parts) ==
    IF parts = <<>> THEN <<>>
    ELSE IF Len(parts) = 1 THEN parts[1]
    ELSE parts[1] \o sep \o Join(sep, Tail(parts))

\* s.split(sep) for a one-element separator: the pieces between separators,
\* empty pieces included.
RECURSIVE Split(_, _)
Split(s, sep) ==
    IF \A i \in 1..Len(s) : s[i] # sep THEN <<s>>
    ELSE LET k == CHOOSE i \in 1..Len(s) :
                      s[i] = sep /\ \A j \in 1..(i - 1) : s[j] # sep
         IN  <<SubSeq(s, 1, k - 1)>> \o Split(SubSeq(s, k + 1, Len(s)), sep)

\* bytes.decode("utf-8", "ignore") for buffers whose bytes >= 128 never form
\* a valid multi-byte sequence: every such byte is dropped.
DecodeIgnore(bytes) == SelectSeq(bytes, LAMBDA b : b < 128)


\* a < b for two strs (lexicographic by code point)
RECURSIVE StrLess(_, _)
StrLess(a, b) ==
    IF b = <<>> THEN FALSE
    ELSE IF a = <<>> THEN TRUE
    ELSE IF a[1] # b[1] THEN a[1] < b[1]
    ELSE StrLess(Tail(a), Tail(b))

\* sorted(set_of_strs)
RECURSIVE SortedStrs(_)
SortedStrs(set) ==
    IF set = {} THEN <<>>
    ELSE LET m == CHOOSE x \in set : \A y \in set \ {x} : StrLess(x, y)
         IN  <<m>> \o SortedStrs(set \ {m})

Str(s) == [t |-> "str", v |-> s]

-----------------------------------------------------------------------------
(* Python ints.  TLC's integers are 32 bits wide, the program's are not: a *)
(* non-negative int is the little-endian sequence of its base-256 digits,  *)
(* without high zero digits (0 is the empty sequence).                     *)

\* mag without its high zero digits
RECURSIVE Strip(_)
Strip(mag) ==
    IF mag # <<>> /\ mag[Len(mag)] = 0 THEN Strip(SubSeq(mag, 1, Len(mag) - 1))
    ELSE mag

\* mag * m + carry, for small m and carry
RECURSIVE MulAdd(_, _, _)
MulAdd(mag, m, carry) ==
    IF mag = <<>>
    THEN IF carry = 0 THEN <<>>
         ELSE <<carry % 256>> \o MulAdd(<<>>, m, carry \div 256)
    ELSE LET v == mag[1] * m + carry
         IN  <<v % 256>> \o MulAdd(Tail(mag), m, v \div 256)

\* divmod(mag, d) for a small d: [q |-> quotient digits (not stripped), r]
RECURSIVE DivSmall(_, _)
DivSmall(mag, d) ==
    IF mag = <<>> THEN [q |-> <<>>, r |-> 0]
    ELSE LET hi == DivSmall(Tail(mag), d)
             v  == hi.r * 256 + mag[1]
         IN  [q |-> <<v \div d>> \o hi.q, r |-> v % d]

\* int(s) for a str of ASCII digits
RECURSIVE IntOfDigits(_)
IntOfDigits(s) ==
    IF s = <<>> THEN <<>>
    ELSE Strip(MulAdd(IntOfDigits(SubSeq(s, 1, Len(s) - 1)), 10, s[Len(s)] - 48))

RECURSIVE DecDigits(_)
DecDigits(mag) ==
    IF mag = <<>> THEN <<>>
    ELSE LET dm == DivSmall(mag, 10)
         IN  DecDigits(Strip(dm.q)) \o <<48 + dm.r>>

\* str(n) for n >= 0
StrOfInt(mag) == IF mag = <<>> THEN <<48>> ELSE DecDigits(mag)

\* n & 0xFFFFFFFF for n >= 0
And32(mag) == Strip(SubSeq(mag, 1, Min(4, Len(mag))))

-----------------------------------------------------------------------------
(* Plain-text KeyValues (utils.py): the regular expressions.               *)

Quote     == 34
Backslash == 92

\* The 1-based position of the first c at or after position i (0: none)
NextIndex(s, c, i) ==
    IF \E j \in i..Len(s) : s[j] = c
    THEN CHOOSE j \in i..Len(s) : s[j] = c /\ \A k \in i..(j - 1) : s[k] # c
    ELSE 0

\* A match of a regular expression: [ok, at (where it starts), g1 (group
\* 1), end (the position after it)]; ok = FALSE stands for no match
NoMatch(i) == [ok |-> FALSE, at |-> i, g1 |-> <<>>, end |-> i]

\* "(...)" with the quotes at open and close, for a match that starts at i
QuotedBetween(contents, i, open, close) ==
    IF /\ open <= Len(contents) /\ contents[open] = Quote
       /\ close > open + 1
       /\ close <= Len(contents) /\ contents[close] = Quote
    THEN [ok |-> TRUE, at |-> i, g1 |-> SubSeq(contents, open + 1, close - 1),
          end |-> close + 1]
    ELSE NoMatch(i)

\* "([^"]+)" with the opening quote expected at open
QuotedFrom(contents, i, open) ==
    QuotedBetween(contents, i, open, NextIndex(contents, Quote, open + 1))

\* "(\d+)" with the opening quote expected at open
QuotedDigitsFrom(contents, i, open) ==
    QuotedBetween(contents, i, open, RunEnd(contents, open + 1, Digits))

\* \s*"([^"]+)" from position from on, for a match that starts at i
ReQuotedAt(contents, i, from) == QuotedFrom(contents, i, RunEnd(contents, from, Spaces))

\* \s*"(\d+)" from position from on, for a match that starts at i
ReQuotedDigitsAt(contents, i, from) ==
    QuotedDigitsFrom(contents, i, RunEnd(contents, from, Spaces))

\* The quoted key "<name>"
QuotedKey(name) == <<Quote>> \o name \o <<Quote>>

\* '"<name>"\s*"([^"]+)"' (digits: '"<name>"\s*"(\d+)"') matched at position i
ReKeyAt(name, contents, i, digits) ==
    IF OccursAt(contents, QuotedKey(name), i)
    THEN IF digits THEN ReQuotedDigitsAt(contents, i, i + Len(name) + 2)
         ELSE ReQuotedAt(contents, i, i + Len(name) + 2)
    ELSE NoMatch(i)

\* The leftmost of the matches, or no match at i
Leftmost(matches, i) ==
    IF matches = {} THEN NoMatch(i)
    ELSE CHOOSE m \in matches : \A other \in matches : m.at <= other.at

\* re.search of that pattern from position i on: the leftmost match
ReSearchKeyFrom(name, contents, i, digits) ==
    Leftmost({m \in {ReKeyAt(name, contents, j, digits) : j \in i..Len(contents)} : m.ok}, i)

ReSearchKey(name, contents, digits) == ReSearchKeyFrom(name, contents, 1, digits)

\* The groups of the matches from the match m on, each search from the end
\* of the match before
RECURSIVE ReFindAllKey(_, _, _)
GroupsFromKey(name, contents, m) ==
    IF m.ok THEN <<m.g1>> \o ReFindAllKey(name, contents, m.end) ELSE <<>>

\* re.findall of '"<name>"\s*"([^"]+)"': the groups of the matches, which do
\* not overlap
ReFindAllKey(name, contents, i) ==
    GroupsFromKey(name, contents, ReSearchKeyFrom(name, contents, i, FALSE))

\* '"\d+"\s*"([^"]+)"' with the closing quote of the number expected at close
IndexBetween(contents, i, close) ==
    IF /\ i <= Len(contents) /\ contents[i] = Quote
       /\ close > i + 1
       /\ close <= Len(contents) /\ contents[close] = Quote
    THEN ReQuotedAt(contents, i, close + 1)
    ELSE NoMatch(i)

\* '"\d+"\s*"([^"]+)"' matched at position i
ReIndexAt(contents, i) == IndexBetween(contents, i, RunEnd(contents, i + 1, Digits))

RECURSIVE ReFindAllIndex(_, _)
GroupsFromIndex(contents, m) ==
    IF m.ok THEN <<m.g1>> \o ReFindAllIndex(contents, m.end) ELSE <<>>

\* re.findall of '"\d+"\s*"([^"]+)"'
ReFindAllIndex(contents, i) ==
    GroupsFromIndex(contents,
        Leftmost({m \in {ReIndexAt(contents, j) : j \in i..Len(contents)} : m.ok}, i))

\* value.replace(old, new) for a two-character old and a one-character new
RECURSIVE Replace2(_, _, _)
Replace2(value, old, new) ==
    IF Len(value) < 2 THEN value
    ELSE IF SubSeq(value, 1, 2) = old
    THEN <<new>> \o Replace2(SubSeq(value, 3, Len(value)), old, new)
    ELSE <<value[1]>> \o Replace2(Tail(value), old, new)

_unescape_vdf(value) ==
    Replace2(Replace2(value, <<Backslash, Backslash>>, Backslash),
             <<Backslash, Quote>>, Quote)

-----------------------------------------------------------------------------
(* Binary KeyValues (utils.py).                                            *)
(* A dict is the sequence of its items [k, v] in insertion order; the      *)
(* values are tagged: str, int ([neg, mag]), float (its four bytes, not    *)
(* decoded), tuple, dict.                                                  *)

Dict(items)    == [t |-> "dict", v |-> items]
PyInt(neg, mag)  == [t |-> "int", v |-> [neg |-> neg, mag |-> mag]]
Float(bytes)   == [t |-> "float", v |-> bytes]
Tuple(bytes)   == [t |-> "tuple", v |-> bytes]

\* key in items
HasKey(items, k) == \E i \in 1..Len(items) : items[i].k = k

\* items[k]
Get(items, k) == items[CHOOSE i \in 1..Len(items) : items[i].k = k].v

\* obj[key] = value: a new key goes last, an old one keeps its place
DictSet(items, k, v) ==
    IF HasKey(items, k)
    THEN [i \in 1..Len(items) |-> IF items[i].k = k THEN [k |-> k, v |-> v] ELSE items[i]]
    ELSE Append(items, [k |-> k, v |-> v])

\* bytes.decode("utf-8", "replace") for buffers whose bytes >= 128 never form
\* a valid multi-byte sequence: each such byte becomes U+FFFD.
DecodeReplace(bytes) == [i \in 1..Len(bytes) |-> IF bytes[i] < 128 THEN bytes[i] ELSE 65533]

\* bytes.decode("utf-16le", "replace") of whole code units, none a surrogate
DecodeUtf16(bytes) ==
    [i \in 1..(Len(bytes) \div 2) |-> bytes[2 * i - 1] + 256 * bytes[2 * i]]

\* 2^(8 * Len(bytes)) - bytes, digit by digit (the two's complement)
RECURSIVE TwosComplement(_, _)
TwosComplement(bytes, carry) ==
    IF bytes = <<>> THEN <<>>
    ELSE LET v == (255 - bytes[1]) + carry
         IN  <<v % 256>> \o TwosComplement(Tail(bytes), v \div 256)

\* int.from_bytes(bytes, "little", signed=...)
FromBytes(bytes, signed) ==
    IF signed /\ bytes # <<>> /\ bytes[Len(bytes)] >= 128
    THEN PyInt(TRUE, Strip(TwosComplement(bytes, 1)))
    ELSE PyInt(FALSE, Strip(bytes))

\* data[a:b] for 0 <= a (a Python slice: cut at the end of data)
Slice(data, a, b) == SubSeq(data, a + 1, Min(b, Len(data)))

\* The first position >= index (0-based) that holds a NUL, or -1
RECURSIVE IndexOfNul(_, _)
IndexOfNul(data, index) ==
    IF index >= Len(data) THEN -1
    ELSE IF data[index + 1] = 0 THEN index
    ELSE IndexOfNul(data, index + 1)

_read_cstring(data, index) ==
    LET end == IndexOfNul(data, index)
    IN  IF end = -1 THEN [s |-> <<>>, idx |-> Len(data)]
        ELSE [s |-> DecodeReplace(Slice(data, index, end)), idx |-> end + 1]

\* The loop of _read_wstring: [chunks, idx]
RECURSIVE WStringLoop(_, _, _)
WStringLoop(data, index, chunks) ==
    IF index + 1 < Len(data)
    THEN IF data[index + 1] = 0 /\ data[index + 2] = 0
         THEN [chunks |-> chunks, idx |-> index + 2]
         ELSE WStringLoop(data, index + 2, chunks \o Slice(data, index, index + 2))
    ELSE [chunks |-> chunks, idx |-> index]

\* A variant that steps over the byte left of an odd-length tail
_read_wstring_pairs(data, index) ==
    LET r == WStringLoop(data, index, <<>>)
    IN  [s |-> DecodeUtf16(r.chunks),
         idx |-> IF r.idx + 1 = Len(data) THEN r.idx + 2 ELSE r.idx]

_read_wstring(data, index) ==
    LET r == WStringLoop(data, index, <<>>)
    IN  [s |-> DecodeUtf16(r.chunks), idx |-> r.idx]

type_end     == 8
type_object  == 0
type_string  == 1
type_int32   == 2
type_float   == 3
type_ptr     == 4
type_wstring == 5
type_color   == 6
type_uint64  == 7

\* The width of the value of a fixed-width type
WidthOf(token) == IF token = type_uint64 THEN 8 ELSE 4

FixedTypes == {type_int32, type_float, type_ptr, type_color, type_uint64}

\* The value of a fixed-width type decoded from its bytes
FixedValue(token, bytes) ==
    IF token = type_int32 THEN FromBytes(bytes, TRUE)
    ELSE IF token = type_float THEN Float(bytes)
    ELSE IF token = type_ptr THEN FromBytes(bytes, FALSE)
    ELSE IF token = type_color THEN Tuple(bytes)
    ELSE FromBytes(bytes, FALSE)

\* "return obj, len(data)" of parse_obj: a truncated value or an unknown tag
\* at the 0-based offset at of its tag.  stop records at (-1: no such stop).
Abort(obj, data, at) == [obj |-> obj, idx |-> Len(data), stop |-> at, raised |-> FALSE]

\* A variant in which the end tag of a nested object closes its parent too
RECURSIVE parse_obj_closing(_, _, _, _)
parse_obj_closing(data, idx, obj, depth) ==
    IF idx >= Len(data) THEN [obj |-> obj, idx |-> idx, stop |-> -1, raised |-> FALSE]
    ELSE LET token == data[idx + 1]
             key   == _read_cstring(data, idx + 1)
         IN  IF token = type_end
             THEN [obj |-> obj, idx |-> idx + 1, stop |-> -1, raised |-> FALSE]
             ELSE IF token = type_object
             THEN IF depth + 1 > MaxDepth
                  THEN [obj |-> obj, idx |-> idx, stop |-> -1, raised |-> TRUE]
                  ELSE LET r    == parse_obj_closing(data, key.idx, <<>>, depth + 1)
                           o    == DictSet(obj, key.s, Dict(r.obj))
                           rest == [obj |-> o, idx |-> r.idx, stop |-> -1, raised |-> FALSE]
                       IN  IF r.raised THEN r
                           ELSE [rest EXCEPT
                                    !.stop = IF r.stop # -1 THEN r.stop ELSE rest.stop]
             ELSE IF token = type_string
             THEN LET r == _read_cstring(data, key.idx)
                  IN  parse_obj_closing(data, r.idx, DictSet(obj, key.s, Str(r.s)), depth)
             ELSE IF token = type_wstring
             THEN LET r == _read_wstring(data, key.idx)
                  IN  parse_obj_closing(data, r.idx, DictSet(obj, key.s, Str(r.s)), depth)
             ELSE IF token \in FixedTypes
             THEN IF key.idx + WidthOf(token) > Len(data) THEN Abort(obj, data, idx)
                  ELSE parse_obj_closing(data, key.idx + WidthOf(token),
                           DictSet(obj, key.s,
                               FixedValue(token,
                                   Slice(data, key.idx, key.idx + WidthOf(token)))),
                           depth)
             ELSE Abort(obj, data, idx)

\* parse_obj: the while loop from idx with the dict obj built so far, in the
\* depth-th nested call.  A nested object is parsed by a recursive call, and
\* the interpreter raises RecursionError when the calls nest deeper than it
\* allows (MaxDepth): raised, which no frame catches.
RECURSIVE parse_obj(_, _, _, _)
parse_obj(data, idx, obj, depth) ==
    IF idx >= Len(data) THEN [obj |-> obj, idx |-> idx, stop |-> -1, raised |-> FALSE]
    ELSE LET token == data[idx + 1]
             key   == _read_cstring(data, idx + 1)
         IN  IF token = type_end
             THEN [obj |-> obj, idx |-> idx + 1, stop |-> -1, raised |-> FALSE]
             ELSE IF token = type_object
             THEN IF depth + 1 > MaxDepth
                  THEN [obj |-> obj, idx |-> idx, stop |-> -1, raised |-> TRUE]
                  ELSE LET r    == parse_obj(data, key.idx, <<>>, depth + 1)
                           o    == DictSet(obj, key.s, Dict(r.obj))
                           rest == parse_obj(data, r.idx, o, depth)
                       IN  IF r.raised THEN r
                           ELSE [rest EXCEPT
                                    !.stop = IF r.stop # -1 THEN r.stop ELSE rest.stop]
             ELSE IF token = type_string
             THEN LET r == _read_cstring(data, key.idx)
                  IN  parse_obj(data, r.idx, DictSet(obj, key.s, Str(r.s)), depth)
             ELSE IF token = type_wstring
             THEN LET r == _read_wstring(data, key.idx)
                  IN  parse_obj(data, r.idx, DictSet(obj, key.s, Str(r.s)), depth)
             ELSE IF token \in FixedTypes
             THEN IF key.idx + WidthOf(token) > Len(data) THEN Abort(obj, data, idx)
                  ELSE parse_obj(data, key.idx + WidthOf(token),
                           DictSet(obj, key.s,
                               FixedValue(token,
                                   Slice(data, key.idx, key.idx + WidthOf(token)))),
                           depth)
             ELSE Abort(obj, data, idx)

\* [raised, v]: v is the items of the root dict, raised stands for the
\* RecursionError that leaves _parse_binary_vdf
\* One iteration of the loop of parse_obj entered at idx < len(data): the
\* offset it leaves in idx, raised when the nested call does not return
IterationEnd(data, idx) ==
    LET token == data[idx + 1]
        key   == _read_cstring(data, idx + 1)
        At(offset) == [raised |-> FALSE, idx |-> offset]
    IN  IF token = type_end THEN At(idx + 1)
        ELSE IF token = type_object
        THEN LET r == parse_obj(data, key.idx, <<>>, 2)
             IN  [raised |-> r.raised, idx |-> r.idx]
        ELSE IF token = type_string THEN At(_read_cstring(data, key.idx).idx)
        ELSE IF token = type_wstring THEN At(_read_wstring(data, key.idx).idx)
        ELSE IF token \in FixedTypes /\ key.idx + WidthOf(token) <= Len(data)
        THEN At(key.idx + WidthOf(token))
        ELSE At(Len(data))

RootOf(root) == [raised |-> root.raised, v |-> IF root.raised THEN <<>> ELSE root.obj]

_parse_binary_vdf(data) == RootOf(parse_obj(data, 0, <<>>, 1))

-----------------------------------------------------------------------------
(* The app-info cache (spec.md 4.3).  The sources modelled hold no code    *)
(* that reads it, so this section follows the specification: an 8-byte     *)
(* header, then records of a 4-byte appid, a 4-byte size and a blob.       *)

header_size   == 8
tree_offsets  == <<48, 40>>
type_window   == 4096
common_marker == <<0>> \o S("common") \o <<0>>
type_marker   == <<type_string>> \o S("type") \o <<0>>

\* The first value that is not empty, or the empty one
FirstOf(values) ==
    IF \E i \in 1..Len(values) : values[i] # <<>>
    THEN values[CHOOSE i \in 1..Len(values) :
                    values[i] # <<>> /\ \A j \in 1..(i - 1) : values[j] = <<>>]
    ELSE <<>>

\* The string under the key "type" of an object
TypeIn(items) ==
    IF HasKey(items, S("type")) /\ Get(items, S("type")).t = "str"
    THEN Get(items, S("type")).v
    ELSE <<>>

\* Walk down a tree to an object named "common" and take its type
RECURSIVE CommonType(_)
CommonType(items) ==
    IF /\ HasKey(items, S("common"))
       /\ Get(items, S("common")).t = "dict"
       /\ TypeIn(Get(items, S("common")).v) # <<>>
    THEN TypeIn(Get(items, S("common")).v)
    ELSE FirstOf([i \in 1..Len(items) |->
                     IF items[i].v.t = "dict" THEN CommonType(items[i].v.v) ELSE <<>>])

\* The tree decoded from the 0-based offset of a blob; a parse that fails
\* yields nothing
TreeFrom(blob, offset) ==
    IF offset >= Len(blob) THEN <<>>
    ELSE _parse_binary_vdf(Slice(blob, offset, Len(blob))).v

\* Strategy 1: the structured parse from the fixed offsets, the longer first
StructuredType(blob) ==
    FirstOf([k \in 1..Len(tree_offsets) |-> CommonType(TreeFrom(blob, tree_offsets[k]))])

\* The 1-based positions >= from where marker occurs in blob, in their order
RECURSIVE Occurrences(_, _, _)
Occurrences(blob, marker, from) ==
    IF from + Len(marker) - 1 > Len(blob) THEN <<>>
    ELSE (IF OccursAt(blob, marker, from) THEN <<from>> ELSE <<>>)
         \o Occurrences(blob, marker, from + 1)

\* Strategy 2: the structured parse from just after every "common" marker
MarkerType(blob) ==
    FirstOf([k \in 1..Len(Occurrences(blob, common_marker, 1)) |->
                TypeIn(TreeFrom(blob, Occurrences(blob, common_marker, 1)[k]
                                      + Len(common_marker) - 1))])

\* Strategy 3: the string after the first tagged key "type" in the window
\* that follows the first "common"
DirectType(blob) ==
    IF Occurrences(blob, S("common"), 1) = <<>> THEN <<>>
    ELSE LET start  == Occurrences(blob, S("common"), 1)[1] + Len(S("common")) - 1
             window == Slice(blob, start, start + type_window)
             hits   == Occurrences(window, type_marker, 1)
         IN  IF hits = <<>> THEN <<>>
             ELSE _read_cstring(window, hits[1] + Len(type_marker) - 1).s

\* The type of one entry blob: the first strategy that finds one
TypeOfBlob(blob) == FirstOf(<<StructuredType(blob), MarkerType(blob), DirectType(blob)>>)

\* An unsigned 32-bit field as a number; a field of 2^24 or more is beyond
\* every buffer, and counts as one more than the buffer holds
SizeOf(field, data) ==
    IF field[4] # 0 THEN Len(data) + 1
    ELSE field[1] + 256 * field[2] + 65536 * field[3]

\* The scan that gives up the pairs decoded when it meets a bad size
RECURSIVE ScanRecordsLosing(_, _, _)
ScanRecordsLosing(data, pos, index) ==
    IF pos + 8 > Len(data) THEN index
    ELSE LET appid == Strip(Slice(data, pos, pos + 4))
             size  == SizeOf(Slice(data, pos + 4, pos + 8), data)
             type  == TypeOfBlob(Slice(data, pos + 8, pos + 8 + size))
         IN  IF appid = <<>> THEN index
             ELSE IF size <= 0 \/ pos + 8 + size > Len(data) THEN <<>>
             ELSE ScanRecordsLosing(data, pos + 8 + size,
                                    IF type = <<>> THEN index
                                    ELSE DictSet(index, StrOfInt(appid), type))

\* The scan of the records from the 0-based position pos, index being the
\* mapping decoded so far
RECURSIVE ScanRecords(_, _, _)
ScanRecords(data, pos, index) ==
    IF pos + 8 > Len(data) THEN index
    ELSE LET appid == Strip(Slice(data, pos, pos + 4))
             size  == SizeOf(Slice(data, pos + 4, pos + 8), data)
             type  == TypeOfBlob(Slice(data, pos + 8, pos + 8 + size))
         IN  IF appid = <<>> THEN index
             ELSE IF size <= 0 \/ pos + 8 + size > Len(data) THEN index
             ELSE ScanRecords(data, pos + 8 + size,
                              IF type = <<>> THEN index
                              ELSE DictSet(index, StrOfInt(appid), type))

\* The mapping appid -> type of a cache file
AppInfoIndex(data) ==
    IF Len(data) < header_size THEN <<>> ELSE ScanRecords(data, header_size, <<>>)

-----------------------------------------------------------------------------
(* The files of the installations the model runs on, as Steam writes them. *)

home == S("/home/u")

\* os.path.join(a, b)
join(a, b) ==
    IF StartsWith(b, <<47>>) THEN b
    ELSE IF a = <<>> \/ a[Len(a)] = 47 THEN a \o b
    ELSE a \o <<47>> \o b

\* os.path.join(parts[1], parts[2], ...)
RECURSIVE JoinAll(_)
JoinAll(parts) ==
    IF Len(parts) = 1 THEN parts[1]
    ELSE join(JoinAll(SubSeq(parts, 1, Len(parts) - 1)), parts[Len(parts)])

steamapps == S("steamapps")

steam_root == JoinAll(<<home, S(".steam"), S("steam")>>)
share_root == JoinAll(<<home, S(".local"), S("share"), S("Steam")>>)

\* "s"
Q(s) == <<Quote>> \o s \o <<Quote>>

\* One line of a text KeyValues file: <tab>"key"<tab><tab>"value"<newline>
KV(key, value) == <<9>> \o Q(key) \o <<9, 9>> \o Q(value) \o <<10>>

\* An appmanifest file with the given lines
Acf(lines) == Q(S("AppState")) \o <<10, 123, 10>> \o lines \o <<125, 10>>

\* The app manifests that may be installed: lib 1 is the steamapps directory
\* of the Steam root, lib 2 the one of the library /home/u/lib
ManifestCandidates ==
    <<[entry |-> S("appmanifest_400.acf"), lib |-> 1,
       content |-> Acf(KV(S("appid"), S("400")) \o KV(S("name"), S("Portal"))
                       \o KV(S("installdir"), S("Portal")))],
      [entry |-> S("appmanifest_400.acf"), lib |-> 2,
       content |-> Acf(KV(S("appid"), S("400")) \o KV(S("name"), S("zeta"))
                       \o KV(S("installdir"), S("zeta")))],
      [entry |-> S("appmanifest_1391110.acf"), lib |-> 1,
       content |-> Acf(KV(S("appid"), S("1391110")) \o KV(S("name"), S("Soldier"))
                       \o KV(S("installdir"), S("soldier")))],
      [entry |-> S("appmanifest_500.acf"), lib |-> 1,
       content |-> Acf(KV(S("appid"), S("500")) \o KV(S("name"), S("Beta"))
                       \o KV(S("installdir"), S("Proton 8")))],
      [entry |-> S("appmanifest_600.acf"), lib |-> 2,
       content |-> Acf(KV(S("appid"), S("600")) \o KV(S("name"), S("Proton 9"))
                       \o KV(S("installdir"), S("p9")))],
      [entry |-> S("appmanifest_700.acf"), lib |-> 2,
       content |-> Acf(KV(S("name"), S("alpha")) \o KV(S("installdir"), S("alpha")))],
      [entry |-> S("appmanifest_220.acf"), lib |-> 1,
       content |-> Acf(KV(S("appid"), S("220")) \o KV(S("name"), S("Half-Life 2"))
                       \o KV(S("installdir"), S("hl2")))],
      [entry |-> S("appmanifest_800.acf"), lib |-> 2,
       content |-> Acf(KV(S("appid"), S("800")) \o KV(S("name"), S("BETA"))
                       \o KV(S("installdir"), S("b")))],
      [entry |-> S("appmanifest_290930.acf"), lib |-> 1,
       content |-> Acf(KV(S("appid"), S("290930")) \o KV(S("name"), S("Half-Life 2: Update"))
                       \o KV(S("installdir"), S("hl2/bin")))],
      \* a manifest copied under another file name
      [entry |-> S("appmanifest_999.acf"), lib |-> 2,
       content |-> Acf(KV(S("appid"), S("440")) \o KV(S("name"), S("Team Fortress 2"))
                       \o KV(S("installdir"), S("tf2")))]>>

\* Binary KeyValues as Steam writes them
EncStr(key, value)   == <<type_string>> \o key \o <<0>> \o value \o <<0>>
EncInt32(key, bytes) == <<type_int32>> \o key \o <<0>> \o bytes
EncObj(key, body)    == <<type_object>> \o key \o <<0>> \o body \o <<type_end>>

\* The shortcuts that may be in shortcuts.vdf: the body of their entry
ShortcutCandidates ==
    <<EncInt32(S("appid"), <<144, 1, 0, 0>>) \o EncStr(S("AppName"), S("My Portal"))
          \o EncStr(S("Exe"), Q(S("/opt/p/run"))) \o EncStr(S("StartDir"), Q(S("/opt/p/"))),
      EncInt32(S("appid"), <<255, 255, 255, 255>>) \o EncStr(S("AppName"), S("Alpha"))
          \o EncStr(S("Exe"), S("~/g/run -w")) \o EncStr(S("StartDir"), <<>>),
      EncInt32(S("appid"), <<6, 58, 21, 0>>) \o EncStr(S("AppName"), S("Tool"))
          \o EncStr(S("Exe"), S("/usr/bin/env")) \o EncStr(S("StartDir"), S("/opt/t")),
      EncInt32(S("appid"), <<88, 2, 0, 0>>) \o EncStr(S("AppName"), S("Launcher"))
          \o EncStr(S("Exe"), Q(S("/usr/bin/flatpak")) \o S(" run l"))>>

\* shortcuts.vdf with the candidates picks[1], picks[2], ... as its entries
ShortcutsVdf(picks) ==
    LET RECURSIVE Entries(_)
        Entries(i) ==
            IF i > Len(picks) THEN <<>>
            ELSE EncObj(StrOfInt(Strip(<<i - 1>>)), ShortcutCandidates[picks[i]])
                 \o Entries(i + 1)
    IN  EncObj(S("shortcuts"), Entries(1)) \o <<type_end>>

\* libraryfolders.vdf naming the root and the library /home/u/lib
LibraryFolders(root) ==
    Q(S("libraryfolders")) \o <<10, 123, 10>>
    \o <<9>> \o Q(S("0")) \o <<10, 9, 123, 10, 9>> \o KV(S("path"), root) \o <<9, 125, 10>>
    \o <<9>> \o Q(S("1")) \o <<10, 9, 123, 10, 9>> \o KV(S("path"), S("/home/u/lib"))
    \o <<9, 125, 10>> \o <<125, 10>>

\* The sequences without repetition of at most n elements of set
RECURSIVE PicksUpTo(_, _)
PicksUpTo(set, n) ==
    IF n = 0 THEN {<<>>}
    ELSE {<<>>} \cup UNION {{<<x>> \o q : q \in PicksUpTo(set \ {x}, n - 1)} : x \in set}

\* The shortcuts.vdf files of the model
ShortcutFiles ==
    {ShortcutsVdf(picks) : picks \in PicksUpTo(1..Len(ShortcutCandidates), MaxShortcuts)}

\* _parse_binary_vdf tabulated over them
VdfTable == {[data |-> d, root |-> _parse_binary_vdf(d)] : d \in ShortcutFiles}

\* _parse_binary_vdf(data), looked up in the table for the files of the model
ParsedVdf(data) ==
    IF \E m \in VdfTable : m.data = data
    THEN (CHOOSE m \in VdfTable : m.data = data).root
    ELSE _parse_binary_vdf(data)


-----------------------------------------------------------------------------
(* The filesystem.  fs maps each path that exists to its node              *)
(*   [kind |-> "dir" | "file", id, readable, entries, content]:            *)
(* the names os.listdir gives for a directory, in its order, and the bytes *)
(* of a file.  Two paths with the same id are the same object reached      *)
(* through a symbolic link.                                                *)

\* The key of fs the kernel reaches for an absolute path: empty and "."
\* components do not count.  A relative path is resolved against the working
\* directory, which holds nothing of Steam: it stays as it is and is no key.
Lookup(path) ==
    IF ~StartsWith(path, <<47>>) THEN path
    ELSE <<47>> \o Join(<<47>>, SelectSeq(Split(path, 47),
                                          LAMBDA comp : comp # <<>> /\ comp # <<46>>))

\* Is key the key of a node of that kind
IsKind(fs, key, kind) == key \in DOMAIN fs /\ fs[key].kind = kind

exists(fs, path) == Lookup(path) \in DOMAIN fs
isdir(fs, path)  == IsKind(fs, Lookup(path), "dir")
isfile(fs, path) == IsKind(fs, Lookup(path), "file")

\* The entries of the directory at key
EntriesAt(fs, key) ==
    IF IsKind(fs, key, "dir") /\ fs[key].readable
    THEN [ok |-> TRUE, v |-> fs[key].entries]
    ELSE [ok |-> FALSE, v |-> <<>>]

\* The bytes of the file at key
ContentAt(fs, key) ==
    IF IsKind(fs, key, "file") /\ fs[key].readable
    THEN [ok |-> TRUE, v |-> fs[key].content]
    ELSE [ok |-> FALSE, v |-> <<>>]

\* os.listdir(path): [ok |-> FALSE] stands for OSError
listdir(fs, path) == EntriesAt(fs, Lookup(path))

\* open(path).read(): the bytes, [ok |-> FALSE] stands for OSError
read(fs, path) == ContentAt(fs, Lookup(path))

\* s.rstrip("/")
RECURSIVE RStripSlash(_)
RStripSlash(s) ==
    IF s # <<>> /\ s[Len(s)] = 47 THEN RStripSlash(SubSeq(s, 1, Len(s) - 1)) ELSE s

\* os.path.expanduser(path); no other user than the current one is known
expanduser(path) ==
    IF ~StartsWith(path, <<126>>) THEN path
    ELSE LET i == IF NextIndex(path, 47, 1) = 0 THEN Len(path) ELSE NextIndex(path, 47, 1) - 1
         IN  IF i # 1 THEN path
             ELSE LET out == RStripSlash(home) \o From(path, i)
                  IN  IF out = <<>> THEN <<47>> ELSE out

_steam_roots(fs) ==
    LET candidates ==
            <<JoinAll(<<home, S(".steam"), S("steam")>>),
              JoinAll(<<home, S(".steam"), S("root")>>),
              JoinAll(<<home, S(".local"), S("share"), S("Steam")>>),
              JoinAll(<<home, S("snap"), S("steam"), S("common"), S(".steam"), S("steam")>>),
              JoinAll(<<home, S("snap"), S("steam"), S("common"), S(".local"), S("share"),
                        S("Steam")>>)>>
    IN  SelectSeq(candidates, LAMBDA path : isdir(fs, path))

\* paths after both loops over the matches
UnescapedPaths(newer, older) ==
    {_unescape_vdf(newer[i]) : i \in 1..Len(newer)}
    \cup {_unescape_vdf(older[i]) : i \in 1..Len(older)}

\* The body of _parse_libraryfolders after the file is read: the set paths
LibraryPathsOf(bytes) ==
    UnescapedPaths(ReFindAllKey(S("path"), DecodeIgnore(bytes), 1),
                   SelectSeq(ReFindAllIndex(DecodeIgnore(bytes), 1),
                             LAMBDA m : 47 \in Range(m)))

\* Tabulated over the libraryfolders.vdf files of the model
LibraryFoldersTable ==
    {[content |-> content, paths |-> LibraryPathsOf(content)] :
        content \in {LibraryFolders(root) : root \in {steam_root, share_root}}}

\* The set paths for what reading the file gave
LibraryPathsRead(file) ==
    IF ~file.ok THEN {}
    ELSE IF \E m \in LibraryFoldersTable : m.content = file.v
    THEN (CHOOSE m \in LibraryFoldersTable : m.content = file.v).paths
    ELSE LibraryPathsOf(file.v)

\* The set _parse_libraryfolders returns
_parse_libraryfolders(fs, path) == LibraryPathsRead(read(fs, path))

\* The set libraries of _steam_library_dirs when its loop ends
LibrarySet(fs) ==
    LET roots == _steam_roots(fs)
    IN  UNION {
          {join(roots[i], steamapps)}
          \cup {join(expanduser(lib_path), steamapps) :
                    lib_path \in _parse_libraryfolders(fs,
                        JoinAll(<<roots[i], steamapps, S("libraryfolders.vdf")>>))}
          : i \in 1..Len(roots)}

\* The permutations of a finite set, as sequences
RECURSIVE Perms(_)
Perms(set) ==
    IF set = {} THEN {<<>>}
    ELSE UNION {{<<x>> \o q : q \in Perms(set \ {x})} : x \in set}

\* The lists _steam_library_dirs may return: a set is iterated in an order
\* Python does not fix.
_steam_library_dirs(fs) == Perms({path \in LibrarySet(fs) : isdir(fs, path)})

_steam_userdata_dirs(fs) ==
    LET roots == _steam_roots(fs)
        UsersOf(root) ==
            LET userdata == join(root, S("userdata"))
                entries  == listdir(fs, userdata)
            IN  IF ~isdir(fs, userdata) \/ ~entries.ok THEN <<>>
                ELSE SelectSeq([i \in 1..Len(entries.v) |-> join(userdata, entries.v[i])],
                               LAMBDA path : isdir(fs, path))
        Flat[i \in 0..Len(roots)] ==
            IF i = 0 THEN <<>> ELSE Flat[i - 1] \o UsersOf(roots[i])
    IN  Flat[Len(roots)]

_steam_shortcuts_files(fs) ==
    LET users == _steam_userdata_dirs(fs)
    IN  SelectSeq([i \in 1..Len(users) |->
                      JoinAll(<<users[i], S("config"), S("shortcuts.vdf")>>)],
                  LAMBDA path : isfile(fs, path))

-----------------------------------------------------------------------------
(* Shortcuts (utils.py).                                                   *)

\* bool(value)
Truthy(value) ==
    CASE value.t = "None"  -> FALSE
      [] value.t = "str"   -> value.v # <<>>
      [] value.t = "int"   -> value.v.mag # <<>>
      [] value.t = "dict"  -> value.v # <<>>
      [] value.t = "tuple" -> value.v # <<>>
      [] value.t = "float" -> SubSeq(value.v, 1, 3) # <<0, 0, 0>> \/ value.v[4] % 128 # 0

\* str(value) for the values whose str is their content: a str, an int, a
\* tuple of bytes
StrOf(value) ==
    CASE value.t = "str" -> value.v
      [] value.t = "int" -> (IF value.v.neg THEN <<45>> ELSE <<>>) \o StrOfInt(value.v.mag)
      [] value.t = "tuple" ->
            <<40>> \o Join(<<44, 32>>, [i \in 1..Len(value.v) |->
                                           StrOfInt(Strip(<<value.v[i]>>))]) \o <<41>>

\* str(value or "")
StrOrEmpty(value) == IF Truthy(value) THEN StrOf(value) ELSE <<>>

_get_shortcut_field(entry, keys) ==
    LET Exact(i)   == HasKey(entry, keys[i])
        \* lowered[key.lower()]: the last key of entry with that lower()
        Lowered(k) == entry[CHOOSE i \in 1..Len(entry) :
                               /\ Lower(entry[i].k) = k
                               /\ \A j \in (i + 1)..Len(entry) : Lower(entry[j].k) # k].k
        Loose(i)   == /\ \E j \in 1..Len(entry) : Lower(entry[j].k) = Lower(keys[i])
                      /\ Lowered(Lower(keys[i])) # <<>>
    IN  IF \E i \in 1..Len(keys) : Exact(i)
        THEN Get(entry, keys[CHOOSE i \in 1..Len(keys) :
                                 Exact(i) /\ \A j \in 1..(i - 1) : ~Exact(j)])
        ELSE IF \E i \in 1..Len(keys) : Loose(i)
        THEN Get(entry, Lowered(Lower(keys[CHOOSE i \in 1..Len(keys) :
                                 Loose(i) /\ \A j \in 1..(i - 1) : ~Loose(j)])))
        ELSE None

\* s.strip() (chars = Spaces) and s.strip('"'), s.strip("'")
RECURSIVE StripChars(_, _)
StripChars(s, chars) ==
    IF s # <<>> /\ s[1] \in chars THEN StripChars(Tail(s), chars)
    ELSE IF s # <<>> /\ s[Len(s)] \in chars THEN StripChars(SubSeq(s, 1, Len(s) - 1), chars)
    ELSE s

\* The code points of a decoded str that are not white space
NonSpaces == ((0..127) \cup {65533}) \ Spaces

_first_command_token(value) ==
    LET text == StripChars(value, Spaces)
    IN  IF text = <<>> THEN <<>>
        ELSE LET end == NextIndex(text, text[1], 2) - 1    \* text.find(quote, 1)
             IN  IF text[1] \in {34, 39} /\ end > 1 THEN SubSeq(text, 2, end)
                 ELSE SubSeq(text, 1, RunEnd(text, 1, NonSpaces) - 1)

\* \w of an ASCII pattern
WordChars == (48..57) \cup (65..90) \cup (97..122) \cup {95}

\* os.path.expandvars(path) from position i on, with HOME the only variable of
\* the environment: a known variable is replaced, its value is not scanned
\* again, an unknown one stays.
RECURSIVE ExpandVarsFrom(_, _)
ExpandVarsFrom(path, i) ==
    LET d == NextIndex(path, 36, i)
    IN  IF d = 0 THEN path
        ELSE LET braced == d < Len(path) /\ path[d + 1] = 123
                                /\ NextIndex(path, 125, d + 2) # 0
                 j      == IF braced THEN NextIndex(path, 125, d + 2) + 1
                           ELSE RunEnd(path, d + 1, WordChars)
                 name   == IF braced THEN SubSeq(path, d + 2, j - 2)
                           ELSE SubSeq(path, d + 1, j - 1)
             IN  IF ~braced /\ j = d + 1 THEN ExpandVarsFrom(path, d + 1)
                 ELSE IF name = S("HOME")
                 THEN SubSeq(path, 1, d - 1) \o home
                      \o ExpandVarsFrom(From(path, j - 1), 1)
                 ELSE ExpandVarsFrom(path, j)

expandvars(path) == ExpandVarsFrom(path, 1)

_normalize_shortcut_path(value) ==
    IF value = <<>> THEN <<>>
    ELSE expanduser(expandvars(
             StripChars(StripChars(StripChars(_first_command_token(value), Spaces),
                                   {34}), {39})))

\* n & 0xFFFFFFFF for an int [neg, mag]
And32Signed(n) ==
    LET low == [i \in 1..4 |-> IF i <= Len(n.mag) THEN n.mag[i] ELSE 0]
    IN  IF n.neg THEN Strip(TwosComplement(low, 1)) ELSE Strip(low)

RECURSIVE Pow2(_)
Pow2(k) == IF k = 0 THEN 1 ELSE 2 * Pow2(k - 1)

\* mag * 2^k: whole digits first, then the bits left
ShiftLeft(mag, k) == [i \in 1..(k \div 8) |-> 0] \o MulAdd(mag, Pow2(k % 8), 0)

\* The digits of a str that int() accepts as digits: ASCII digits, with single
\* underscores between them; <<>> when it accepts none
IntDigits(s) ==
    IF /\ s # <<>>
       /\ \A i \in 1..Len(s) : s[i] \in Digits \cup {95}
       /\ s[1] # 95 /\ s[Len(s)] # 95
       /\ \A i \in 1..(Len(s) - 1) : ~(s[i] = 95 /\ s[i + 1] = 95)
    THEN SelectSeq(s, LAMBDA c : c # 95)
    ELSE <<>>

\* int(value): [ok |-> TRUE, v |-> [neg, mag]], or the exception it raises.
\* A str holds an int when it is digits after an optional sign, within
\* optional white space, and not more digits than int() converts; a float is
\* cut toward zero.
IntOf(value) ==
    CASE value.t = "int" -> [ok |-> TRUE, exc |-> "", v |-> value.v]
      [] value.t = "str" ->
            LET text   == StripChars(value.v, Spaces)
                signed == text # <<>> /\ text[1] \in {43, 45}
                digits == IntDigits(IF signed THEN Tail(text) ELSE text)
            IN  IF digits # <<>> /\ Len(digits) <= MaxStrDigits
                THEN [ok |-> TRUE, exc |-> "",
                      v |-> [neg |-> signed /\ text[1] = 45 /\ IntOfDigits(digits) # <<>>,
                             mag |-> IntOfDigits(digits)]]
                ELSE [ok |-> FALSE, exc |-> "ValueError", v |-> [neg |-> FALSE, mag |-> <<>>]]
      [] value.t = "float" ->
            LET b == value.v
                e == (b[4] % 128) * 2 + b[3] \div 128
                m == (b[3] % 128) * 65536 + b[2] * 256 + b[1]
                M == <<b[1], b[2], (b[3] % 128) + 128>>
                mag == IF e = 0 \/ e < 127 THEN <<>>
                       ELSE IF e >= 150 THEN ShiftLeft(M, e - 150)
                       ELSE LET q == (m + 8388608) \div Pow2(150 - e)
                            IN  Strip(<<q % 256, (q \div 256) % 256, q \div 65536>>)
            IN  IF e = 255
                THEN [ok |-> FALSE, exc |-> IF m = 0 THEN "OverflowError" ELSE "ValueError",
                      v |-> [neg |-> FALSE, mag |-> <<>>]]
                ELSE [ok |-> TRUE, exc |-> "",
                      v |-> [neg |-> b[4] >= 128 /\ mag # <<>>, mag |-> mag]]
      [] value.t \in {"tuple", "dict", "None"} ->
            [ok |-> FALSE, exc |-> "TypeError", v |-> [neg |-> FALSE, mag |-> <<>>]]

\* [raised, v]: v is None or the str; only TypeError and ValueError are caught
_normalize_shortcut_appid(value) ==
    IF value.t = "None" THEN [raised |-> FALSE, v |-> None]
    ELSE IF IntOf(value).ok
    THEN [raised |-> FALSE, v |-> Str(StrOfInt(And32Signed(IntOf(value).v)))]
    ELSE [raised |-> IntOf(value).exc \notin {"TypeError", "ValueError"}, v |-> None]

\* The body of the loop without the test of seen_appids
ShortcutOfFieldsUnseen(appid, name, exe, startdir, launch_options, acc) ==
    IF appid.raised THEN [raised |-> TRUE, v |-> acc.v]
    ELSE IF ~Truthy(appid.v) \/ ~Truthy(name) THEN acc
    ELSE [raised |-> FALSE,
          v |-> Append(acc.v,
                   [appid          |-> appid.v.v,
                    name           |-> StrOf(name),
                    exe            |-> _normalize_shortcut_path(StrOrEmpty(exe)),
                    startdir       |-> _normalize_shortcut_path(StrOrEmpty(startdir)),
                    launch_options |-> StrOrEmpty(launch_options)])]

\* The body of the loop of get_steam_shortcuts for the fields of one entry
ShortcutOfFields(appid, name, exe, startdir, launch_options, acc) ==
    IF appid.raised THEN [raised |-> TRUE, v |-> acc.v]
    ELSE IF ~Truthy(appid.v) \/ ~Truthy(name) THEN acc
    ELSE IF \E i \in 1..Len(acc.v) : acc.v[i].appid = appid.v.v THEN acc
    ELSE [raised |-> FALSE,
          v |-> Append(acc.v,
                   [appid          |-> appid.v.v,
                    name           |-> StrOf(name),
                    exe            |-> _normalize_shortcut_path(StrOrEmpty(exe)),
                    startdir       |-> _normalize_shortcut_path(StrOrEmpty(startdir)),
                    launch_options |-> StrOrEmpty(launch_options)])]

\* One entry of the "shortcuts" object: the list with the shortcut appended,
\* the list as it was when the entry is skipped, raised when int() raised
\* something the code does not catch.
ShortcutOfEntry(entry, acc) ==
    ShortcutOfFields(
        _normalize_shortcut_appid(_get_shortcut_field(entry, <<S("appid")>>)),
        _get_shortcut_field(entry, <<S("appname"), S("AppName")>>),
        _get_shortcut_field(entry, <<S("exe"), S("Exe")>>),
        _get_shortcut_field(entry, <<S("StartDir"), S("startdir"), S("startDir")>>),
        _get_shortcut_field(entry,
            <<S("LaunchOptions"), S("launchoptions"), S("launchOptions")>>),
        acc)

RECURSIVE ShortcutsOfEntries(_, _, _)
ShortcutsOfEntries(entries, i, acc) ==
    IF acc.raised \/ i > Len(entries) THEN acc
    ELSE IF entries[i].v.t # "dict" THEN ShortcutsOfEntries(entries, i + 1, acc)
    ELSE ShortcutsOfEntries(entries, i + 1, ShortcutOfEntry(entries[i].v.v, acc))

\* The loop over the entries of the parsed file
ShortcutsOfRoot(root, acc) ==
    IF root.raised THEN [raised |-> TRUE, v |-> acc.v]
    ELSE IF ~HasKey(root.v, S("shortcuts")) \/ Get(root.v, S("shortcuts")).t # "dict"
    THEN acc
    ELSE ShortcutsOfEntries(Get(root.v, S("shortcuts")).v, 1, acc)

ShortcutsOfData(data, acc) == ShortcutsOfRoot(ParsedVdf(data), acc)

\* One file of the loop: a file that cannot be read is skipped
ShortcutsOfFile(file, acc) == IF ~file.ok THEN acc ELSE ShortcutsOfData(file.v, acc)

RECURSIVE ShortcutsOfFiles(_, _, _, _)
ShortcutsOfFiles(fs, files, i, acc) ==
    IF acc.raised \/ i > Len(files) THEN acc
    ELSE ShortcutsOfFiles(fs, files, i + 1, ShortcutsOfFile(read(fs, files[i]), acc))

\* [raised, v]: v is the list of [appid, name, exe, startdir, launch_options]
get_steam_shortcuts(fs) ==
    ShortcutsOfFiles(fs, _steam_shortcuts_files(fs), 1, [raised |-> FALSE, v |-> <<>>])

-----------------------------------------------------------------------------
(* App manifests and the catalog (utils.py).                               *)

\* The body of _parse_appmanifest after the file is read
\* What _parse_appmanifest returns for its two matches
AppmanifestFrom(name_match, appid_match) ==
    IF ~name_match.ok THEN [ok |-> FALSE, appid |-> <<>>, name |-> <<>>]
    ELSE [ok    |-> TRUE,
          appid |-> IF appid_match.ok THEN appid_match.g1 ELSE <<>>,
          name  |-> _unescape_vdf(name_match.g1)]

\* What _parse_appmanifest_details returns for its three matches
AppmanifestDetailsFrom(name_match, appid_match, dir_match) ==
    IF ~name_match.ok \/ ~dir_match.ok
    THEN [ok |-> FALSE, appid |-> <<>>, name |-> <<>>, installdir |-> <<>>]
    ELSE [ok         |-> TRUE,
          appid      |-> IF appid_match.ok THEN appid_match.g1 ELSE <<>>,
          name       |-> _unescape_vdf(name_match.g1),
          installdir |-> _unescape_vdf(dir_match.g1)]

\* The searches of both functions in the decoded contents
ManifestMatches(contents) ==
    [name       |-> ReSearchKey(S("name"), contents, FALSE),
     appid      |-> ReSearchKey(S("appid"), contents, TRUE),
     installdir |-> ReSearchKey(S("installdir"), contents, FALSE)]

\* Both results for the matches
ManifestOfMatches(m) ==
    [plain   |-> AppmanifestFrom(m.name, m.appid),
     details |-> AppmanifestDetailsFrom(m.name, m.appid, m.installdir)]

\* The bodies of _parse_appmanifest and _parse_appmanifest_details after the
\* file is read: [plain, details]
ManifestOf(bytes) == ManifestOfMatches(ManifestMatches(DecodeIgnore(bytes)))


\* Tabulated over the manifests of the model
ManifestTable ==
    {[content |-> content, parsed |-> ManifestOf(content)] :
        content \in {ManifestCandidates[k].content : k \in 1..Len(ManifestCandidates)}}

\* [plain, details] for what reading the file gave; ok = FALSE stands for None
ManifestRead(file) ==
    IF ~file.ok
    THEN [plain   |-> [ok |-> FALSE, appid |-> <<>>, name |-> <<>>],
          details |-> [ok |-> FALSE, appid |-> <<>>, name |-> <<>>, installdir |-> <<>>]]
    ELSE IF \E m \in ManifestTable : m.content = file.v
    THEN (CHOOSE m \in ManifestTable : m.content = file.v).parsed
    ELSE ManifestOf(file.v)

\* [ok, appid, name]
_parse_appmanifest(fs, path) == ManifestRead(read(fs, path)).plain

\* [ok, appid, name, installdir]
_parse_appmanifest_details(fs, path) == ManifestRead(read(fs, path)).details

known_runtime_appids ==
    {S("1070560"), S("1391110"), S("1628350"), S("228980"),
     S("1161040"), S("1493710"), S("2180100"), S("3658110")}

\* installdir and appid are <<>> where the caller leaves them out (None)
_is_steam_runtime(name, installdir, appid) ==
    LET haystack == Lower(name \o <<32>> \o installdir)
    IN  \/ appid # <<>> /\ appid \in known_runtime_appids
        \/ Contains(haystack, S("proton"))
        \/ Contains(haystack, S("steam linux runtime"))
        \/ Contains(haystack, S("steamworks common redistributables"))
        \/ Contains(haystack, S("steamworks shared"))

\* entry is the name of an app manifest
IsManifestName(entry) ==
    /\ StartsWith(entry, S("appmanifest_"))
    /\ Len(entry) >= 4 /\ SubSeq(entry, Len(entry) - 3, Len(entry)) = S(".acf")

\* entry[len("appmanifest_") : -len(".acf")]
appid_from_name(entry) == SubSeq(entry, 13, Len(entry) - 4)

\* sorted(items, key=...) with keys[i] the key of items[i]: stable, the keys
\* compared as strs
RECURSIVE SortedByKey(_, _)
SortedByKey(items, keys) ==
    IF items = <<>> THEN <<>>
    ELSE LET m == CHOOSE i \in 1..Len(items) :
                      /\ \A j \in 1..(i - 1) : StrLess(keys[i], keys[j])
                      /\ \A j \in (i + 1)..Len(items) : ~StrLess(keys[j], keys[i])
             Drop(seq) == SubSeq(seq, 1, m - 1) \o SubSeq(seq, m + 1, Len(seq))
         IN  <<items[m]>> \o SortedByKey(Drop(items), Drop(keys))

\* A variant that compares the names as they are
NameKeyExact(item) == item.name

\* key=lambda item: item[1].lower()
NameKey(item) == Lower(item.name)

sorted(items) == SortedByKey(items, [i \in 1..Len(items) |-> NameKey(items[i])])

\* A variant that always takes the digits of the file name
AppidOfEntry(appid, entry) == appid_from_name(entry)

\* appid or entry[len("appmanifest_") : -len(".acf")]
AppidOr(appid, entry) == IF appid # <<>> THEN appid ELSE appid_from_name(entry)

\* games after the manifest entry, parsed, is looked at
GamesOfManifest(entry, parsed, games) ==
    IF /\ parsed.ok
       /\ AppidOr(parsed.appid, entry) # <<>>
       /\ ~_is_steam_runtime(parsed.name, <<>>, AppidOr(parsed.appid, entry))
    THEN DictSet(games, AppidOr(parsed.appid, entry), parsed.name)
    ELSE games

\* get_steam_installed_games: the manifests of one library from entries[i]
\* on, games being the dict appid -> name built so far
RECURSIVE GamesOfEntries(_, _, _, _, _)
GamesOfEntries(fs, library, entries, i, games) ==
    IF i > Len(entries) THEN games
    ELSE GamesOfEntries(fs, library, entries, i + 1,
             IF IsManifestName(entries[i])
             THEN GamesOfManifest(entries[i], _parse_appmanifest(fs, join(library, entries[i])),
                                  games)
             ELSE games)

\* A variant that forgets the games found so far when a library cannot be
\* listed
GamesOfListingLosing(fs, library, listing, games) ==
    IF listing.ok THEN GamesOfEntries(fs, library, listing.v, 1, games) ELSE <<>>

\* The manifests of one library, listing being what os.listdir gave
GamesOfListing(fs, library, listing, games) ==
    IF listing.ok THEN GamesOfEntries(fs, library, listing.v, 1, games) ELSE games

RECURSIVE GamesOfLibraries(_, _, _, _)
GamesOfLibraries(fs, library_dirs, i, games) ==
    IF i > Len(library_dirs) THEN games
    ELSE GamesOfLibraries(fs, library_dirs, i + 1,
             GamesOfListing(fs, library_dirs[i], listdir(fs, library_dirs[i]), games))

\* A variant that lets a shortcut replace the manifest of its appid
RECURSIVE MergeShortcutsAlways(_, _, _)
MergeShortcutsAlways(shortcuts, i, games) ==
    IF i > Len(shortcuts) THEN games
    ELSE MergeShortcutsAlways(shortcuts, i + 1,
             IF shortcuts[i].appid # <<>> /\ shortcuts[i].name # <<>>
             THEN DictSet(games, shortcuts[i].appid, shortcuts[i].name)
             ELSE games)

\* "if appid and name and appid not in games: games[appid] = name" for the
\* shortcuts from i on
RECURSIVE MergeShortcuts(_, _, _)
MergeShortcuts(shortcuts, i, games) ==
    IF i > Len(shortcuts) THEN games
    ELSE MergeShortcuts(shortcuts, i + 1,
             IF shortcuts[i].appid # <<>> /\ shortcuts[i].name # <<>>
                  /\ ~HasKey(games, shortcuts[i].appid)
             THEN DictSet(games, shortcuts[i].appid, shortcuts[i].name)
             ELSE games)

\* games.items() of get_steam_installed_games before it is sorted, as
\* [appid, name], for the libraries in the order library_dirs
ItemsOf(games) == [i \in 1..Len(games) |-> [appid |-> games[i].k, name |-> games[i].v]]

\* A variant that lists the manifests alone
games_items_of_manifests(fs, library_dirs) ==
    ItemsOf(GamesOfLibraries(fs, library_dirs, 1, <<>>))

games_items(fs, library_dirs) ==
    ItemsOf(MergeShortcuts(get_steam_shortcuts(fs).v, 1,
                           GamesOfLibraries(fs, library_dirs, 1, <<>>)))

\* What a catalog function returns with the list it has built
Returned(items) == [raised |-> FALSE, before |-> items, v |-> sorted(items)]

\* [raised, before, v]: v is the list of [appid, name] returned, before is
\* games.items() as sorted() receives it
get_steam_installed_games(fs, library_dirs) ==
    IF get_steam_shortcuts(fs).raised
    THEN [raised |-> TRUE, before |-> <<>>, v |-> <<>>]
    ELSE Returned(games_items(fs, library_dirs))

\* games after the manifest entry of library, parsed, is looked at
PathsOfManifest(library, entry, parsed, games) ==
    IF /\ parsed.ok
       /\ AppidOr(parsed.appid, entry) # <<>>
       /\ parsed.installdir # <<>>
       /\ ~_is_steam_runtime(parsed.name, parsed.installdir, AppidOr(parsed.appid, entry))
    THEN DictSet(games, AppidOr(parsed.appid, entry),
             [name |-> parsed.name,
              path |-> JoinAll(<<library, S("common"), parsed.installdir>>)])
    ELSE games

\* get_steam_installed_game_paths: the manifests of one library from
\* entries[i] on, games being the dict appid -> [name, path] built so far
RECURSIVE PathsOfEntries(_, _, _, _, _)
PathsOfEntries(fs, library, entries, i, games) ==
    IF i > Len(entries) THEN games
    ELSE PathsOfEntries(fs, library, entries, i + 1,
             IF IsManifestName(entries[i])
             THEN PathsOfManifest(library, entries[i],
                      _parse_appmanifest_details(fs, join(library, entries[i])), games)
             ELSE games)

\* The manifests of one library, listing being what os.listdir gave
PathsOfListing(fs, library, listing, games) ==
    IF listing.ok THEN PathsOfEntries(fs, library, listing.v, 1, games) ELSE games

RECURSIVE PathsOfLibraries(_, _, _, _)
PathsOfLibraries(fs, library_dirs, i, games) ==
    IF i > Len(library_dirs) THEN games
    ELSE PathsOfLibraries(fs, library_dirs, i + 1,
             PathsOfListing(fs, library_dirs[i], listdir(fs, library_dirs[i]), games))

skip_paths == {S("/usr/bin"), S("/usr/bin/flatpak"), S("/usr/bin/env")}

\* What the second loop of get_steam_installed_game_paths appends for one
\* shortcut with its base_path
ShortcutPath(shortcut, base_path) ==
    IF base_path = <<>> \/ base_path \in skip_paths THEN <<>>
    ELSE <<[appid |-> shortcut.appid, name |-> shortcut.name, path |-> base_path]>>

\* The entries the loop appends for the shortcuts from i on
RECURSIVE ShortcutPaths(_, _)
ShortcutPaths(shortcuts, i) ==
    IF i > Len(shortcuts) THEN <<>>
    ELSE ShortcutPath(shortcuts[i],
                      IF shortcuts[i].startdir # <<>> THEN shortcuts[i].startdir
                      ELSE shortcuts[i].exe)
         \o ShortcutPaths(shortcuts, i + 1)

\* result after the first loop: one entry for each item of games
PathItemsOf(games) ==
    [i \in 1..Len(games) |->
        [appid |-> games[i].k, name |-> games[i].v.name, path |-> games[i].v.path]]

\* result of get_steam_installed_game_paths before it is sorted, as
\* [appid, name, path]
paths_result(fs, library_dirs) ==
    PathItemsOf(PathsOfLibraries(fs, library_dirs, 1, <<>>))
    \o ShortcutPaths(get_steam_shortcuts(fs).v, 1)

\* [raised, before, v]: v is the list of [appid, name, path] returned,
\* before is result as sorted() receives it
get_steam_installed_game_paths(fs, library_dirs) ==
    IF get_steam_shortcuts(fs).raised
    THEN [raised |-> TRUE, before |-> <<>>, v |-> <<>>]
    ELSE Returned(paths_result(fs, library_dirs))

-----------------------------------------------------------------------------
(* The installations the model runs the catalog on: the files as Steam     *)
(* writes them, in the layouts Steam uses.                                 *)

Dir(id, entries)  == [kind |-> "dir", id |-> id, readable |-> TRUE,
                      entries |-> entries, content |-> <<>>]
File(id, content) == [kind |-> "file", id |-> id, readable |-> TRUE,
                      entries |-> <<>>, content |-> content]

\* The function with the given [path, node] pairs
FsOf(pairs) == [path \in {x.path : x \in pairs} |-> (CHOOSE x \in pairs : x.path = path).node]

\* The manifests picked (a set of indices of ManifestCandidates) of library lib
InLib(manifests, lib) == {k \in manifests : ManifestCandidates[k].lib = lib}

\* A directory of app manifests at path with the extra entries first
AppsTreeOf(path, id, first, picked) ==
    {[path |-> path, node |-> Dir(id, first \o SortedStrs({m.entry : m \in picked}))]}
    \cup {[path |-> join(path, m.entry), node |-> File(20 + m.k, m.content)] : m \in picked}

AppsTree(path, id, first, manifests) ==
    AppsTreeOf(path, id, first, {[k |-> k] @@ ManifestCandidates[k] : k \in manifests})

\* A Steam root at path: its steamapps with libraryfolders.vdf, and one user
\* with a shortcuts.vdf when there are shortcuts.  real is the path Steam
\* knows the root by.
RootTree(path, real, manifests, picks) ==
    {[path |-> path, node |-> Dir(1, <<steamapps, S("userdata")>>)],
     [path |-> JoinAll(<<path, steamapps, S("libraryfolders.vdf")>>),
      node |-> File(3, LibraryFolders(real))],
     [path |-> join(path, S("userdata")), node |-> Dir(4, <<S("1")>>)],
     [path |-> JoinAll(<<path, S("userdata"), S("1")>>), node |-> Dir(5, <<S("config")>>)],
     [path |-> JoinAll(<<path, S("userdata"), S("1"), S("config")>>),
      node |-> Dir(6, IF picks = <<>> THEN <<>> ELSE <<S("shortcuts.vdf")>>)]}
    \cup AppsTree(join(path, steamapps), 2, <<S("libraryfolders.vdf")>>, InLib(manifests, 1))
    \cup (IF picks = <<>> THEN {}
          ELSE {[path |-> JoinAll(<<path, S("userdata"), S("1"), S("config"),
                                    S("shortcuts.vdf")>>),
                 node |-> File(7, ShortcutsVdf(picks))]})

\* The installation with the manifests and shortcuts picked.  linked: Steam
\* lives in ~/.local/share/Steam and ~/.steam/steam is the symbolic link to
\* it that Steam creates; otherwise ~/.steam/steam is the directory itself.
MakeFs(linked, manifests, picks) ==
    FsOf(UNION {RootTree(path, IF linked THEN share_root ELSE steam_root, manifests, picks) :
                    path \in IF linked THEN {share_root, steam_root} ELSE {steam_root}}
         \cup {[path |-> S("/home/u/lib"), node |-> Dir(8, <<steamapps>>)]}
         \cup AppsTree(S("/home/u/lib/steamapps"), 9, <<>>, InLib(manifests, 2)))

\* The subsets of set with at most n elements
SubsetsUpTo(set, n) == {x \in SUBSET set : Cardinality(x) <= n}

FileSystems ==
    {MakeFs(linked, manifests, picks) :
        linked \in BOOLEAN,
        manifests \in SubsetsUpTo(1..Len(ManifestCandidates), MaxManifests),
        picks \in PicksUpTo(1..Len(ShortcutCandidates), MaxShortcuts)}

-----------------------------------------------------------------------------
(* SteamProcessWatcher: reading /proc.                                     *)
(* A link or file of /proc is [ok |-> can it be read, v |-> its content].  *)

_safe_readlink(link) == IF link.ok THEN link.v ELSE <<>>

_safe_read_cmdline(file) ==
    IF ~file.ok THEN <<>>
    ELSE LET raw   == Split(file.v, 0)
             items == SelectSeq(raw, LAMBDA item : item # <<>>)
         IN  [i \in 1..Len(items) |-> DecodeIgnore(items[i])]

\* The dict is a function from the keys to the values; of two items with
\* the same key the later one stays.
_safe_read_environ(file) ==
    IF ~file.ok THEN <<>>
    ELSE LET raw    == Split(file.v, 0)
             items  == SelectSeq(raw, LAMBDA item : 61 \in Range(item))
             Key(i) == DecodeIgnore(SubSeq(items[i], 1, FirstIndex(items[i], 61) - 1))
             Val(i) == DecodeIgnore(From(items[i], FirstIndex(items[i], 61)))
             Last(k) == CHOOSE i \in 1..Len(items) :
                            Key(i) = k /\ \A j \in (i + 1)..Len(items) : Key(j) # k
         IN  [k \in {Key(i) : i \in 1..Len(items)} |-> Val(Last(k))]

-----------------------------------------------------------------------------
(* SteamProcessWatcher: the four strategies.                               *)

env_keys == <<S("SteamAppId"), S("SteamAppID"), S("STEAM_APP_ID"), S("SteamGameId")>>

_get_env_appid(env) ==
    LET Good(i) == env_keys[i] \in DOMAIN env /\ IsDigit(env[env_keys[i]])
    IN  IF \E i \in 1..Len(env_keys) : Good(i)
        THEN env[env_keys[CHOOSE i \in 1..Len(env_keys) :
                              Good(i) /\ \A j \in 1..(i - 1) : ~Good(j)]]
        ELSE <<>>

\* re.search(r"compatdata[\\/](\d+)", value): [ok, g1]
compatdata == S("compatdata")

ReSearchCompat(value) ==
    LET n     == Len(compatdata)
        At(i) == /\ OccursAt(value, compatdata, i)
                 /\ i + n <= Len(value)
                 /\ value[i + n] \in {92, 47}
                 /\ RunEnd(value, i + n + 1, Digits) > i + n + 1
    IN  IF \E i \in 1..Len(value) : At(i)
        THEN LET i == CHOOSE k \in 1..Len(value) : At(k) /\ \A j \in 1..(k - 1) : ~At(j)
             IN  [ok |-> TRUE,
                  g1 |-> SubSeq(value, i + n + 1, RunEnd(value, i + n + 1, Digits) - 1)]
        ELSE [ok |-> FALSE, g1 |-> <<>>]

compat_keys == <<S("STEAM_COMPAT_APP_ID"), S("STEAM_COMPAT_DATA_PATH")>>

\* What the loop body returns for one key: [ret |-> did it return, v]
CompatOfKey(env, key) ==
    LET value == IF key \in DOMAIN env THEN env[key] ELSE <<>>
    IN  IF IsDigit(value) THEN [ret |-> TRUE, v |-> value]
        ELSE IF ReSearchCompat(value).ok
        THEN [ret |-> TRUE, v |-> ReSearchCompat(value).g1]
        ELSE [ret |-> FALSE, v |-> <<>>]

_get_compat_appid(env) ==
    IF CompatOfKey(env, compat_keys[1]).ret THEN CompatOfKey(env, compat_keys[1]).v
    ELSE IF CompatOfKey(env, compat_keys[2]).ret THEN CompatOfKey(env, compat_keys[2]).v
    ELSE <<>>

\* The literal part of each pattern of _get_cmd_appid; every pattern goes on
\* with [=:\s]+(\d+).
patterns ==
    <<S("SteamAppId"), S("STEAM_APP_ID"), S("steam_appid"), S("-steamappid"),
      S("-steamAppId"), S("--appid"), S("-appid"), S("--app-id"), S("-app-id"),
      S("-gameid"), S("-gameId")>>

\* [=:\s]
Seps == {61, 58} \cup Spaces

\* re.search(literal + r"[=:\s]+(\d+)", text, re.IGNORECASE): [ok, g1].
\* No character is both a separator and a digit, so the greedy runs are the
\* only way to match.
ReSearchFlag(literal, text) ==
    LET n      == Len(literal)
        low    == Lower(text)
        lit    == Lower(literal)
        Sep(i) == RunEnd(text, i + n, Seps)
        At(i)  == /\ OccursAt(low, lit, i)
                  /\ Sep(i) > i + n
                  /\ RunEnd(text, Sep(i), Digits) > Sep(i)
    IN  IF \E i \in 1..Len(text) : At(i)
        THEN LET i == CHOOSE k \in 1..Len(text) : At(k) /\ \A j \in 1..(k - 1) : ~At(j)
             IN  [ok |-> TRUE,
                  g1 |-> SubSeq(text, Sep(i), RunEnd(text, Sep(i), Digits) - 1)]
        ELSE [ok |-> FALSE, g1 |-> <<>>]

\* A variant that masks from 10 digits on
CmdAppidFrom10(value) ==
    IF Len(value) >= 10
    THEN IF Len(value) > MaxStrDigits THEN value
         ELSE StrOfInt(And32(IntOfDigits(value)))
    ELSE value

\* The value _get_cmd_appid returns for the captured digits: int(value)
\* raises ValueError on more digits than it converts, and the value is
\* returned as it is
CmdAppidOfValue(value) ==
    IF Len(value) > 10
    THEN IF Len(value) > MaxStrDigits THEN value
         ELSE StrOfInt(And32(IntOfDigits(value)))
    ELSE value

\* match.group(1) of the first pattern that matches: [ok, g1]
CmdCaptured(cmdline) ==
    LET text   == Join(<<32>>, cmdline)
        Hit(i) == ReSearchFlag(patterns[i], text).ok
    IN  IF \E i \in 1..Len(patterns) : Hit(i)
        THEN ReSearchFlag(patterns[CHOOSE k \in 1..Len(patterns) :
                                       Hit(k) /\ \A j \in 1..(k - 1) : ~Hit(j)], text)
        ELSE [ok |-> FALSE, g1 |-> <<>>]

_get_cmd_appid(cmdline) ==
    IF CmdCaptured(cmdline).ok THEN CmdAppidOfValue(CmdCaptured(cmdline).g1) ELSE <<>>

\* One iteration of the loop of _match_path_appid
PathHit(item, exe, cwd, cmd_text) ==
    \/ exe # <<>> /\ StartsWith(exe, item.base)
    \/ cwd # <<>> /\ StartsWith(cwd, item.base)
    \/ cmd_text # <<>> /\ Contains(cmd_text, item.base)

\* The loop returning the name of the item in place of its appid
_match_path_name(paths, exe, cwd, cmd_text) ==
    IF \E i \in 1..Len(paths) : PathHit(paths[i], exe, cwd, cmd_text)
    THEN paths[CHOOSE i \in 1..Len(paths) :
                   /\ PathHit(paths[i], exe, cwd, cmd_text)
                   /\ \A j \in 1..(i - 1) : ~PathHit(paths[j], exe, cwd, cmd_text)].name
    ELSE <<>>

_match_path_appid(paths, exe, cwd, cmd_text) ==
    IF \E i \in 1..Len(paths) : PathHit(paths[i], exe, cwd, cmd_text)
    THEN paths[CHOOSE i \in 1..Len(paths) :
                   /\ PathHit(paths[i], exe, cwd, cmd_text)
                   /\ \A j \in 1..(i - 1) : ~PathHit(paths[j], exe, cwd, cmd_text)].appid
    ELSE <<>>

-----------------------------------------------------------------------------
(* SteamProcessWatcher: _inspect_pid, __init__, _poll.                     *)

steam           == S("steam")
pressure_vessel == S("pressure-vessel")
reaper          == S("reaper")

\* The (strategy, appid) tuples in the order _inspect_pid appends them
MatchesOf(paths, exe, cwd, cmdline, env) ==
    LET One(name, appid) == IF appid # <<>> THEN <<[strategy |-> name, appid |-> appid]>>
                            ELSE <<>>
    IN  One("env", _get_env_appid(env))
        \o One("compat", _get_compat_appid(env))
        \o One("cmdline", _get_cmd_appid(cmdline))
        \o One("path", _match_path_appid(paths, exe, cwd, Join(<<32>>, cmdline)))

\* A variant that lets the last strategy win
LastMatchAppid(matches) ==
    IF matches # <<>> THEN Str(matches[Len(matches)].appid) ELSE None

\* The appid _inspect_pid reports for its list of matches
ChosenAppid(matches) == IF matches # <<>> THEN Str(matches[1].appid) ELSE None

\* self._name_by_appid.get(appid, ""): the name of the last game with appid
NameByAppid(games, appid) ==
    IF appid.t = "str" /\ \E i \in 1..Len(games) : games[i].appid = appid.v
    THEN games[CHOOSE i \in 1..Len(games) :
                   /\ games[i].appid = appid.v
                   /\ \A j \in (i + 1)..Len(games) : games[j].appid # appid.v].name
    ELSE <<>>

\* The dict _inspect_pid returns for what it has read and matched
InfoOfMatches(games, pid, exe, cwd, cmdline, env, matches) ==
    [pid |-> pid, exe |-> exe, cwd |-> cwd, cmdline |-> cmdline, env |-> env,
     steam_client |->
         /\ cmdline # <<>>
         /\ \/ Contains(Lower(cmdline[1]), steam)
            \/ Contains(Lower(Join(<<32>>, cmdline)), steam)
            \/ Contains(Lower(Join(<<32>>, cmdline)), pressure_vessel)
            \/ Contains(Lower(Join(<<32>>, cmdline)), reaper),
     matches |-> matches,
     appid |-> ChosenAppid(matches),
     name |-> NameByAppid(games, ChosenAppid(matches))]

InfoOfRead(games, paths, pid, exe, cwd, cmdline, env) ==
    InfoOfMatches(games, pid, exe, cwd, cmdline, env, MatchesOf(paths, exe, cwd, cmdline, env))

\* p is one entry of /proc: [pid, exe, cwd, cmdline, environ]
_inspect_pid(games, paths, p) ==
    InfoOfRead(games, paths, p.pid, _safe_readlink(p.exe), _safe_readlink(p.cwd),
               _safe_read_cmdline(p.cmdline), _safe_read_environ(p.environ))

\* os.path.normpath (posixpath)
RECURSIVE NormComps(_, _, _)
NormComps(comps, new_comps, initial_slashes) ==
    IF comps = <<>> THEN new_comps
    ELSE LET comp == comps[1]
             dotdot == <<46, 46>>
         IN  IF comp = <<>> \/ comp = <<46>>
             THEN NormComps(Tail(comps), new_comps, initial_slashes)
             ELSE IF \/ comp # dotdot
                     \/ (initial_slashes = 0 /\ new_comps = <<>>)
                     \/ (new_comps # <<>> /\ new_comps[Len(new_comps)] = dotdot)
             THEN NormComps(Tail(comps), Append(new_comps, comp), initial_slashes)
             ELSE IF new_comps # <<>>
             THEN NormComps(Tail(comps), SubSeq(new_comps, 1, Len(new_comps) - 1),
                            initial_slashes)
             ELSE NormComps(Tail(comps), new_comps, initial_slashes)

normpath(path) ==
    IF path = <<>> THEN <<46>>
    ELSE LET initial_slashes ==
                 IF ~StartsWith(path, <<47>>) THEN 0
                 ELSE IF StartsWith(path, <<47, 47>>) /\ ~StartsWith(path, <<47, 47, 47>>)
                 THEN 2 ELSE 1
             comps == NormComps(Split(path, 47), <<>>, initial_slashes)
             out   == [i \in 1..initial_slashes |-> 47] \o Join(<<47>>, comps)
         IN  IF out = <<>> THEN <<46>> ELSE out

\* The list left in the order of the catalog
Unsorted(items) == items

\* list.sort(key=lambda item: len(item[0]), reverse=True): stable, the
\* longest base first
RECURSIVE SortLongestFirst(_)
SortLongestFirst(items) ==
    IF items = <<>> THEN <<>>
    ELSE LET i == CHOOSE k \in 1..Len(items) :
                      /\ \A j \in 1..Len(items) : Len(items[j].base) <= Len(items[k].base)
                      /\ \A j \in 1..(k - 1) : Len(items[j].base) < Len(items[k].base)
         IN  <<items[i]>>
             \o SortLongestFirst(SubSeq(items, 1, i - 1) \o SubSeq(items, i + 1, Len(items)))

\* self._paths as __init__ builds it from self._games
PathsOf(games) ==
    SortLongestFirst([i \in 1..Len(games) |->
        [base |-> normpath(games[i].path), appid |-> games[i].appid,
         name |-> games[i].name]])

\* sorted({match["appid"] for match in hits if match.get("appid")})
CurrentAppids(hits) ==
    SortedStrs({hits[i].appid.v : i \in {k \in 1..Len(hits) :
                    hits[k].appid.t = "str" /\ hits[k].appid.v # <<>>}})

-----------------------------------------------------------------------------
(* The process tables a tick may read.                                     *)

Readable(v) == [ok |-> TRUE, v |-> v]
Unreadable  == [ok |-> FALSE, v |-> <<>>]

\* The content of /proc/<pid>/cmdline or environ: every item ends with NUL
RECURSIVE Nul(_)
Nul(items) == IF items = <<>> THEN <<>> ELSE items[1] \o <<0>> \o Nul(Tail(items))

hl2_dir == S("/home/u/.steam/steam/steamapps/common/hl2")

ProcEntries ==
    { \* a game with an appid in its environment and another on its command line
      [name |-> S("101"), exe |-> Readable(hl2_dir \o S("/hl2_linux")),
       cwd |-> Readable(hl2_dir),
       cmdline |-> Readable(Nul(<<S("./hl2_linux"), S("--appid"), S("330")>>)),
       environ |-> Readable(Nul(<<S("HOME=/home/u"), S("SteamAppId=220")>>))],
      \* a Proton game: only the compat-data path names the appid
      [name |-> S("102"), exe |-> Readable(S("/usr/bin/wine")),
       cwd |-> Readable(S("/home/u")),
       cmdline |-> Readable(Nul(<<S("wine"), S("game.exe"), S("-gameid=440")>>)),
       environ |-> Readable(Nul(<<S("SteamAppId=none"),
                                  S("STEAM_COMPAT_DATA_PATH=/l/compatdata/620/pfx")>>))],
      \* a launcher that passes an oversized id on the command line
      [name |-> S("103"), exe |-> Readable(S("/usr/bin/reaper")),
       cwd |-> Readable(S("/home/u")),
       cmdline |-> Readable(Nul(<<S("reaper"), S("-gameid"), S("99999999999")>>)),
       environ |-> Readable(Nul(<<S("HOME=/home/u")>>))],
      \* a game known by its install path alone
      [name |-> S("104"), exe |-> Readable(hl2_dir \o S("/bin/hl2")),
       cwd |-> Readable(S("/home/u")),
       cmdline |-> Readable(Nul(<<S("hl2")>>)),
       environ |-> Readable(Nul(<<S("HOME=/home/u")>>))],
      \* the same game while its files cannot be read
      [name |-> S("101"), exe |-> Unreadable, cwd |-> Unreadable,
       cmdline |-> Unreadable, environ |-> Unreadable],
      \* the Steam client
      [name |-> S("105"), exe |-> Readable(S("/usr/lib/steam/steam")),
       cwd |-> Readable(S("/home/u")),
       cmdline |-> Readable(Nul(<<S("/usr/lib/Steam/steam"), S("-silent")>>)),
       environ |-> Readable(Nul(<<S("HOME=/home/u")>>))],
      \* a helper of the Steam client with an empty command line
      [name |-> S("107"), exe |-> Readable(S("/usr/lib/steam/steamwebhelper")),
       cwd |-> Readable(S("/home/u")),
       cmdline |-> Readable(<<>>),
       environ |-> Readable(Nul(<<S("HOME=/home/u")>>))],
      \* a game of another user: only its command line can be read
      [name |-> S("108"), exe |-> Unreadable, cwd |-> Unreadable,
       cmdline |-> Readable(Nul(<<S("hl2_linux"), S("-gameid"), S("440")>>)),
       environ |-> Unreadable],
      \* a pager showing a file of the game
      [name |-> S("109"), exe |-> Readable(S("/usr/bin/less")),
       cwd |-> Readable(S("/home/u")),
       cmdline |-> Readable(Nul(<<S("less"), hl2_dir \o S("/readme.txt")>>)),
       environ |-> Readable(Nul(<<S("HOME=/home/u")>>))],
      \* a shell
      [name |-> S("106"), exe |-> Readable(S("/usr/bin/bash")),
       cwd |-> Readable(S("/home/u")),
       cmdline |-> Readable(Nul(<<S("bash")>>)),
       environ |-> Readable(Nul(<<S("HOME=/home/u")>>))],
      \* an entry of /proc that is no process
      [name |-> S("self"), exe |-> Unreadable, cwd |-> Unreadable,
       cmdline |-> Unreadable, environ |-> Unreadable] }

\* The sequences of at most n elements of set
RECURSIVE SeqsUpTo(_, _)
SeqsUpTo(set, n) ==
    IF n = 0 THEN {<<>>}
    ELSE LET shorter == SeqsUpTo(set, n - 1)
         IN  shorter \cup {Append(q, x) : q \in shorter, x \in set}

\* os.listdir("/proc") fails as a whole or lists its entries
ProcTables ==
    {[listable |-> FALSE, entries |-> <<>>]}
    \cup {[listable |-> TRUE, entries |-> e] : e \in SeqsUpTo(ProcEntries, MaxProcs)}

\* int(entry) of a /proc entry name
RECURSIVE PidOf(_)
PidOf(name) ==
    IF name = <<>> THEN 0
    ELSE PidOf(SubSeq(name, 1, Len(name) - 1)) * 10 + (name[Len(name)] - 48)

\* What _list_pids yields: the entries of /proc whose name is a number
_list_pids(table) ==
    IF ~table.listable THEN <<>>
    ELSE SelectSeq(table.entries, LAMBDA e : IsDigit(e.name))

\* _inspect_pid(int(entry)) for an entry of /proc
InspectEntry(games, e) ==
    _inspect_pid(games, PathsOf(games),
                 [pid |-> PidOf(e.name), exe |-> e.exe, cwd |-> e.cwd,
                  cmdline |-> e.cmdline, environ |-> e.environ])

\* The installations a watcher is constructed on
WatcherFileSystems == {MakeFs(FALSE, manifests, <<>>) : manifests \in {{}, {7}, {7, 9}}}

\* The catalogs get_steam_installed_game_paths returns on them
WatcherCatalogs ==
    UNION {{get_steam_installed_game_paths(f, ld).v : ld \in _steam_library_dirs(f)} :
              f \in WatcherFileSystems}

\* InspectEntry tabulated over the catalogs and the entries of the model
InspectTable ==
    {[games |-> g, entry |-> e, info |-> InspectEntry(g, e)] :
        g \in WatcherCatalogs, e \in ProcEntries}

InfoOf(games, e) ==
    (CHOOSE m \in InspectTable : m.games = games /\ m.entry = e).info

\* Does _poll see a change, and what it stores in self._last
\* A comparison that takes the state before the first tick for an empty list
ChangedFromEmpty(last, current) == current # (IF last = None THEN List(<<>>) ELSE last)

Changed(last, current) == current # last
KeepLast(last, current) == last

\* A variant that forgets the stored list on a change
ForgetLast(last, current) == IF Changed(last, current) THEN None ELSE last
NextLast(last, current) == IF Changed(last, current) THEN current ELSE last

\* The state of a part of the program that a specification does not run
NoCall == [called |-> FALSE, raised |-> FALSE, before |-> <<>>, v |-> <<>>]

NoVdfCall == [called |-> FALSE, raised |-> FALSE, obj |-> <<>>, idx |-> 0, stop |-> -1]
NoCmdCall == [called |-> FALSE, captured |-> <<>>, v |-> <<>>]
NoShortcutsCall == [called |-> FALSE, raised |-> FALSE, v |-> <<>>]
NoAppInfoCall == [called |-> FALSE, v |-> <<>>]
NoFile == [exists |-> FALSE, lines |-> <<>>]
NoAutostartCall == [called |-> FALSE, of |-> "", arg |-> FALSE, ok |-> FALSE,
                    enabled_before |-> FALSE, hidden_before |-> FALSE]
NoTextCall == [called |-> FALSE, of |-> "", found |-> FALSE, values |-> {}]

-----------------------------------------------------------------------------
(* SteamProcessWatcher.                                                    *)

\* SteamProcessWatcher.__init__ on one of the installations
\* The watcher constructed on the installation f, whose libraries are
\* iterated in the order ld, the catalog being what
\* get_steam_installed_game_paths returned
Init ==
    \E f \in WatcherFileSystems :
      \E ld \in _steam_library_dirs(f) :
        \E catalog \in {get_steam_installed_game_paths(f, ld)} :
          /\ disk = f
          /\ libraries = [called |-> TRUE, v |-> ld]
          /\ games_call = NoCall
          /\ paths_call = [called |-> TRUE] @@ catalog
          /\ shortcuts_call = NoShortcutsCall
          /\ cache = <<>>
          /\ appinfo_call = NoAppInfoCall
          /\ file_value = <<>>
          /\ text_call = NoTextCall
          /\ user_file = NoFile
          /\ system_file = NoFile
          /\ autostart_call = NoAutostartCall
          /\ item_autostart = FALSE
          /\ item_autohide = FALSE
          /\ autohide_sensitive = FALSE
          /\ _ticks = 0
          /\ _last = None
          /\ _games = catalog.v
          /\ _paths = PathsOf(catalog.v)
          /\ proc = [listable |-> TRUE, entries |-> <<>>]
          /\ infos = <<>>
          /\ current_appids = None
          /\ prev_appids = None
          /\ emitted = FALSE
          /\ poll_result = FALSE
          /\ buffer = <<>>
          /\ vdf_call = NoVdfCall
          /\ argv = <<>>
          /\ cmd_call = NoCmdCall

\* A loop that ends at the first pid with something it cannot read
InfosOfAborting(games, pids) ==
    LET Whole(e) == e.exe.ok /\ e.cwd.ok /\ e.cmdline.ok /\ e.environ.ok
        n == IF \E i \in 1..Len(pids) : ~Whole(pids[i])
             THEN (CHOOSE i \in 1..Len(pids) :
                       ~Whole(pids[i]) /\ \A j \in 1..(i - 1) : Whole(pids[j])) - 1
             ELSE Len(pids)
    IN  [i \in 1..n |-> InfoOf(games, pids[i])]

\* all of _poll: _inspect_pid for each pid
InfosOf(games, pids) == [i \in 1..Len(pids) |-> InfoOf(games, pids[i])]

\* One tick on the process table read: all is the dict of every pid, hits
\* those with matches, current the sorted appids of the hits
_poll ==
    /\ _ticks < MaxTicks
    /\ \E table \in ProcTables :
         \E all \in {InfosOf(_games, _list_pids(table))} :
           \E current \in {List(CurrentAppids(SelectSeq(all, LAMBDA info : info.matches # <<>>)))} :
               /\ _ticks' = _ticks + 1
               /\ proc' = table
               /\ infos' = all
               /\ current_appids' = current
               /\ prev_appids' = current_appids
               /\ emitted' = Changed(_last, current)
               /\ _last' = NextLast(_last, current)
               /\ poll_result' = TRUE
               /\ UNCHANGED <<_games, _paths, catalogVars, vdfVars, cmdVars, shortcutVars, appinfoVars, textVars, autostartVars>>

Next == _poll
Spec == Init /\ [][Next]_vars

-----------------------------------------------------------------------------
(* The catalog queries on an installation.                                 *)

InitCatalog ==
    /\ disk \in FileSystems
    /\ libraries = [called |-> FALSE, v |-> <<>>]
    /\ games_call = NoCall
    /\ paths_call = NoCall
    /\ shortcuts_call = NoShortcutsCall
    /\ cache = <<>>
    /\ appinfo_call = NoAppInfoCall
    /\ file_value = <<>>
    /\ text_call = NoTextCall
    /\ user_file = NoFile
    /\ system_file = NoFile
    /\ autostart_call = NoAutostartCall
    /\ item_autostart = FALSE
    /\ item_autohide = FALSE
    /\ autohide_sensitive = FALSE
    /\ _ticks = 0
    /\ _last = None
    /\ _games = <<>>
    /\ _paths = <<>>
    /\ proc = [listable |-> TRUE, entries |-> <<>>]
    /\ infos = <<>>
    /\ current_appids = None
    /\ prev_appids = None
    /\ emitted = FALSE
    /\ poll_result = FALSE
    /\ buffer = <<>>
    /\ vdf_call = NoVdfCall
    /\ argv = <<>>
    /\ cmd_call = NoCmdCall

\* The first call of _steam_library_dirs in the process: the order in which
\* the set of libraries is iterated is not fixed by Python; later calls
\* build the same set the same way and iterate it in the same order.
SteamLibraryDirs ==
    /\ ~libraries.called
    /\ \E ld \in _steam_library_dirs(disk) : libraries' = [called |-> TRUE, v |-> ld]
    /\ UNCHANGED <<disk, games_call, paths_call, watcherVars, vdfVars, cmdVars, shortcutVars, appinfoVars, textVars, autostartVars>>

GetSteamInstalledGames ==
    /\ libraries.called /\ ~games_call.called
    /\ games_call' = [called |-> TRUE] @@ get_steam_installed_games(disk, libraries.v)
    /\ UNCHANGED <<disk, libraries, paths_call, watcherVars, vdfVars, cmdVars, shortcutVars, appinfoVars, textVars, autostartVars>>

GetSteamInstalledGamePaths ==
    /\ libraries.called /\ ~paths_call.called
    /\ paths_call' = [called |-> TRUE] @@ get_steam_installed_game_paths(disk, libraries.v)
    /\ UNCHANGED <<disk, libraries, games_call, watcherVars, vdfVars, cmdVars, shortcutVars, appinfoVars, textVars, autostartVars>>

NextCatalog == SteamLibraryDirs \/ GetSteamInstalledGames \/ GetSteamInstalledGamePaths
SpecCatalog == InitCatalog /\ [][NextCatalog]_vars

-----------------------------------------------------------------------------
(* _parse_binary_vdf on a buffer.                                          *)

\* What a buffer is made of: a string entry, an int32 entry, the head of a
\* nested object, the end of an object, an int32 entry cut short, a tag that
\* is no type
Pieces ==
    {EncStr(S("a"), S("x")), EncInt32(S("n"), <<1, 0, 0, 0>>), <<type_object, 111, 0>>,
     <<type_end>>, <<type_int32, 110, 0, 1>>, <<9>>}

RECURSIVE Concat(_)
Concat(parts) == IF parts = <<>> THEN <<>> ELSE parts[1] \o Concat(Tail(parts))

Buffers == {Concat(parts) : parts \in SeqsUpTo(Pieces, MaxPieces)}

\* Well-formed buffers with the tree each one is built from.  A leaf is the
\* tag, the bytes Steam writes for the value, and the value they stand for.
TreeLeaves ==
    {[tag |-> type_string, bytes |-> S("x") \o <<0>>, value |-> Str(S("x"))],
     [tag |-> type_string, bytes |-> <<0>>, value |-> Str(<<>>)],
     [tag |-> type_int32, bytes |-> <<144, 1, 0, 0>>, value |-> PyInt(FALSE, <<144, 1>>)],
     [tag |-> type_int32, bytes |-> <<255, 255, 255, 255>>, value |-> PyInt(TRUE, <<1>>)],
     [tag |-> type_int32, bytes |-> <<0, 0, 0, 128>>, value |-> PyInt(TRUE, <<0, 0, 0, 128>>)],
     [tag |-> type_ptr, bytes |-> <<255, 255, 255, 255>>,
      value |-> PyInt(FALSE, <<255, 255, 255, 255>>)],
     [tag |-> type_color, bytes |-> <<1, 2, 3, 255>>, value |-> Tuple(<<1, 2, 3, 255>>)],
     [tag |-> type_uint64, bytes |-> <<0, 0, 0, 0, 0, 0, 0, 128>>,
      value |-> PyInt(FALSE, <<0, 0, 0, 0, 0, 0, 0, 128>>)]}

TreeKeys == {S("a"), S("b")}

\* The body of an object, [bytes, items]: one entry with a leaf, one entry
\* with a nested object, two bodies one after the other
LeafEntry(k, leaf) ==
    [bytes |-> <<leaf.tag>> \o k \o <<0>> \o leaf.bytes,
     items |-> <<[k |-> k, v |-> leaf.value]>>]
ObjEntry(k, body) ==
    [bytes |-> <<type_object>> \o k \o <<0>> \o body.bytes \o <<type_end>>,
     items |-> <<[k |-> k, v |-> Dict(body.items)]>>]
Then(first, second) ==
    [bytes |-> first.bytes \o second.bytes, items |-> first.items \o second.items]

\* Bodies without a nested object: at most two entries, with distinct keys
FlatBodies ==
    {[bytes |-> <<>>, items |-> <<>>]}
    \cup {LeafEntry(k, leaf) : k \in TreeKeys, leaf \in TreeLeaves}
    \cup {Then(LeafEntry(S("a"), first), LeafEntry(S("b"), second)) :
              first \in TreeLeaves, second \in TreeLeaves}
    \cup {Then(LeafEntry(S("b"), first), LeafEntry(S("a"), second)) :
              first \in TreeLeaves, second \in TreeLeaves}

\* Bodies with one nested object, alone or followed by a sibling
NestedBodies ==
    {ObjEntry(k, body) : k \in TreeKeys, body \in FlatBodies}
    \cup {Then(ObjEntry(S("a"), body), LeafEntry(S("b"), leaf)) :
              body \in FlatBodies, leaf \in TreeLeaves}

\* n objects nested in one another around one string
RECURSIVE Chain(_)
Chain(n) ==
    IF n = 0 THEN LeafEntry(S("a"), [tag |-> type_string, bytes |-> S("x") \o <<0>>,
                                     value |-> Str(S("x"))])
    ELSE ObjEntry(S("o"), Chain(n - 1))

Trees == FlatBodies \cup NestedBodies \cup {Chain(n) : n \in 1..MaxDepth}

\* The buffer of a tree: the body of the root object and its end tag
BufferOf(tree) == tree.bytes \o <<type_end>>

\* A file with a nested object, a UTF-16 string and values of fixed width,
\* and what is left of it when it is cut after n bytes
WholeFile ==
    <<type_object, 111, 0>> \o EncStr(S("s"), S("x")) \o EncInt32(S("n"), <<1, 0, 0, 0>>)
    \o <<type_end>> \o <<type_wstring, 119, 0, 104, 0, 105, 0, 0, 0>> \o <<type_end>>
CutFiles == {SubSeq(WholeFile, 1, n) : n \in 0..Len(WholeFile)}

\* Bodies with entries after the end tag of a nested object, one and two
\* levels down
SiblingBodies ==
    {Then(ObjEntry(S("a"), body), LeafEntry(S("b"), leaf)) :
         body \in FlatBodies, leaf \in TreeLeaves}
    \cup {Then(ObjEntry(S("a"), Then(ObjEntry(S("a"), LeafEntry(k, inner)),
                                     LeafEntry(S("b"), middle))),
                Then(ObjEntry(S("b"), LeafEntry(k, inner)), LeafEntry(S("c"), outer))) :
              k \in TreeKeys, inner \in TreeLeaves, middle \in TreeLeaves,
              outer \in TreeLeaves}

\* What a file may hold after the end tag of its root object
Tails ==
    {<<>>, <<type_end>>, EncStr(S("z"), S("y")), <<type_object, 122, 0>>, <<9, 9>>}

\* The buffers of these bodies with these tails: [buffer, items, end], end
\* being the offset after the end tag of the root
TailedTable ==
    {[buffer |-> BufferOf(tree) \o tail, items |-> tree.items,
      end |-> Len(BufferOf(tree))] : tree \in SiblingBodies, tail \in Tails}

InitVdf ==
    /\ buffer \in Buffers \cup {BufferOf(tree) : tree \in Trees}
                     \cup {m.buffer : m \in TailedTable} \cup CutFiles
    /\ vdf_call = NoVdfCall
    /\ disk = <<>>
    /\ libraries = [called |-> FALSE, v |-> <<>>]
    /\ games_call = NoCall
    /\ paths_call = NoCall
    /\ shortcuts_call = NoShortcutsCall
    /\ cache = <<>>
    /\ appinfo_call = NoAppInfoCall
    /\ file_value = <<>>
    /\ text_call = NoTextCall
    /\ user_file = NoFile
    /\ system_file = NoFile
    /\ autostart_call = NoAutostartCall
    /\ item_autostart = FALSE
    /\ item_autohide = FALSE
    /\ autohide_sensitive = FALSE
    /\ _ticks = 0
    /\ _last = None
    /\ _games = <<>>
    /\ _paths = <<>>
    /\ proc = [listable |-> TRUE, entries |-> <<>>]
    /\ infos = <<>>
    /\ current_appids = None
    /\ prev_appids = None
    /\ emitted = FALSE
    /\ poll_result = FALSE
    /\ argv = <<>>
    /\ cmd_call = NoCmdCall

ParseBinaryVdf ==
    /\ ~vdf_call.called
    /\ vdf_call' = [called |-> TRUE] @@ parse_obj(buffer, 0, <<>>, 1)
    /\ UNCHANGED <<buffer, watcherVars, catalogVars, cmdVars, shortcutVars, appinfoVars, textVars, autostartVars>>

NextVdf == ParseBinaryVdf
SpecVdf == InitVdf /\ [][NextVdf]_vars

-----------------------------------------------------------------------------
(* _get_cmd_appid on a command line.                                       *)

\* d repeated n times
Rep(d, n) == [i \in 1..n |-> d]

IdStrings ==
    {Rep(d, n) : d \in {48, 49, 52, 57}, n \in 1..MaxDigits}
    \cup {S("4294967295"), S("4294967296"), S("99999999999"), S("00000000400")}

\* A game started with its id in one argument or in two, or without one
CmdLines ==
    {<<S("game"), flag \o <<61>> \o id>> :
        flag \in {S("--appid"), S("-gameid"), S("SteamAppId")}, id \in IdStrings}
    \cup {<<S("game"), flag, id>> : flag \in {S("--appid"), S("-gameid")}, id \in IdStrings}
    \cup {<<S("game"), S("--fullscreen")>>}

InitCmd ==
    /\ argv \in CmdLines
    /\ cmd_call = NoCmdCall
    /\ disk = <<>>
    /\ libraries = [called |-> FALSE, v |-> <<>>]
    /\ games_call = NoCall
    /\ paths_call = NoCall
    /\ shortcuts_call = NoShortcutsCall
    /\ cache = <<>>
    /\ appinfo_call = NoAppInfoCall
    /\ file_value = <<>>
    /\ text_call = NoTextCall
    /\ user_file = NoFile
    /\ system_file = NoFile
    /\ autostart_call = NoAutostartCall
    /\ item_autostart = FALSE
    /\ item_autohide = FALSE
    /\ autohide_sensitive = FALSE
    /\ _ticks = 0
    /\ _last = None
    /\ _games = <<>>
    /\ _paths = <<>>
    /\ proc = [listable |-> TRUE, entries |-> <<>>]
    /\ infos = <<>>
    /\ current_appids = None
    /\ prev_appids = None
    /\ emitted = FALSE
    /\ poll_result = FALSE
    /\ buffer = <<>>
    /\ vdf_call = NoVdfCall

GetCmdAppid ==
    /\ ~cmd_call.called
    /\ cmd_call' = [called |-> TRUE, captured |-> CmdCaptured(argv).g1,
                    v |-> _get_cmd_appid(argv)]
    /\ UNCHANGED <<argv, watcherVars, catalogVars, vdfVars, shortcutVars, appinfoVars, textVars, autostartVars>>

NextCmd == GetCmdAppid
SpecCmd == InitCmd /\ [][NextCmd]_vars

-----------------------------------------------------------------------------
(* get_steam_shortcuts on the shortcuts files of two Steam users.          *)

EncFloat(key, bytes) == <<type_float>> \o key \o <<0>> \o bytes

\* The records a shortcuts.vdf may hold.  body is the entry as Steam writes
\* it; appid is the id the record is listed under, name its name (empty:
\* the record has none); integer tells whether the appid stored is one.
ShortcutRecords ==
    {[body |-> ShortcutCandidates[1],
      appid |-> S("400"), name |-> S("My Portal"), integer |-> TRUE],
     [body |-> EncInt32(S("appid"), <<144, 1, 0, 0>>) \o EncStr(S("AppName"), S("Second")),
      appid |-> S("400"), name |-> S("Second"), integer |-> TRUE],
     [body |-> EncInt32(S("appid"), <<144, 1, 0, 0>>) \o EncStr(S("Exe"), S("/opt/p/run")),
      appid |-> S("400"), name |-> <<>>, integer |-> TRUE],
     [body |-> EncInt32(S("appid"), <<144, 1, 0, 0>>) \o EncStr(S("AppName"), <<>>),
      appid |-> S("400"), name |-> <<>>, integer |-> TRUE],
     [body |-> ShortcutCandidates[2],
      appid |-> S("4294967295"), name |-> S("Alpha"), integer |-> TRUE],
     [body |-> EncStr(S("AppName"), S("NoId")) \o EncStr(S("Exe"), S("/opt/n/run")),
      appid |-> <<>>, name |-> S("NoId"), integer |-> FALSE],
     [body |-> EncFloat(S("appid"), <<0, 0, 192, 63>>) \o EncStr(S("AppName"), S("Half")),
      appid |-> S("1"), name |-> S("Half"), integer |-> FALSE],
     [body |-> EncFloat(S("appid"), <<0, 0, 128, 127>>) \o EncStr(S("AppName"), S("Inf")),
      appid |-> <<>>, name |-> S("Inf"), integer |-> FALSE],
     [body |-> EncInt32(S("appid"), <<0, 0, 0, 0>>) \o EncStr(S("AppName"), S("Zero")),
      appid |-> S("0"), name |-> S("Zero"), integer |-> TRUE],
     [body |-> EncInt32(S("appid"), <<0, 0, 0, 128>>) \o EncStr(S("appname"), S("Low")),
      appid |-> S("2147483648"), name |-> S("Low"), integer |-> TRUE]}

\* shortcuts.vdf with the given records as the entries "0", "1", ...
RecordsVdf(records) ==
    LET RECURSIVE Entries(_)
        Entries(i) ==
            IF i > Len(records) THEN <<>>
            ELSE EncObj(StrOfInt(Strip(<<i - 1>>)), records[i].body) \o Entries(i + 1)
    IN  EncObj(S("shortcuts"), Entries(1)) \o <<type_end>>

\* What the two users hold: the records of the first user's file, the
\* records of the second user's file (absent: the user has no file), and
\* the order in which os.listdir names the users
Layouts ==
    [order  : {<<S("1"), S("2")>>, <<S("2"), S("1")>>},
     first  : SeqsUpTo(ShortcutRecords, MaxRecords),
     second : {[present |-> FALSE, records |-> <<>>]}
              \cup {[present |-> TRUE, records |-> <<r>>] :
                        r \in {x \in ShortcutRecords : x.name \in {S("My Portal"), S("Second"),
                                                                  S("Alpha")}}}]

\* The Steam root with the userdata of a layout
ProfileFs(layout) ==
    LET userdata == join(steam_root, S("userdata"))
        config(user) == JoinAll(<<userdata, user, S("config")>>)
    IN  FsOf({[path |-> steam_root, node |-> Dir(1, <<S("userdata")>>)],
              [path |-> userdata, node |-> Dir(4, layout.order)],
              [path |-> join(userdata, S("1")), node |-> Dir(5, <<S("config")>>)],
              [path |-> config(S("1")), node |-> Dir(6, <<S("shortcuts.vdf")>>)],
              [path |-> join(config(S("1")), S("shortcuts.vdf")),
               node |-> File(7, RecordsVdf(layout.first))],
              [path |-> join(userdata, S("2")), node |-> Dir(10, <<S("config")>>)],
              [path |-> config(S("2")),
               node |-> Dir(11, IF layout.second.present THEN <<S("shortcuts.vdf")>>
                                ELSE <<>>)]}
             \cup (IF layout.second.present
                   THEN {[path |-> join(config(S("2")), S("shortcuts.vdf")),
                          node |-> File(12, RecordsVdf(layout.second.records))]}
                   ELSE {}))

ProfileTable == {[fs |-> ProfileFs(layout), layout |-> layout] : layout \in Layouts}

InitShortcuts ==
    /\ disk \in {m.fs : m \in ProfileTable}
    /\ libraries = [called |-> FALSE, v |-> <<>>]
    /\ games_call = NoCall
    /\ paths_call = NoCall
    /\ shortcuts_call = NoShortcutsCall
    /\ cache = <<>>
    /\ appinfo_call = NoAppInfoCall
    /\ file_value = <<>>
    /\ text_call = NoTextCall
    /\ user_file = NoFile
    /\ system_file = NoFile
    /\ autostart_call = NoAutostartCall
    /\ item_autostart = FALSE
    /\ item_autohide = FALSE
    /\ autohide_sensitive = FALSE
    /\ _ticks = 0
    /\ _last = None
    /\ _games = <<>>
    /\ _paths = <<>>
    /\ proc = [listable |-> TRUE, entries |-> <<>>]
    /\ infos = <<>>
    /\ current_appids = None
    /\ prev_appids = None
    /\ emitted = FALSE
    /\ poll_result = FALSE
    /\ buffer = <<>>
    /\ vdf_call = NoVdfCall
    /\ argv = <<>>
    /\ cmd_call = NoCmdCall

GetSteamShortcuts ==
    /\ ~shortcuts_call.called
    /\ shortcuts_call' = [called |-> TRUE] @@ get_steam_shortcuts(disk)
    /\ UNCHANGED <<watcherVars, catalogVars, vdfVars, cmdVars, appinfoVars, textVars, autostartVars>>

NextShortcuts == GetSteamShortcuts
SpecShortcuts == InitShortcuts /\ [][NextShortcuts]_vars

\* The index of an installation: the caches of its roots, a later root
\* overriding an earlier one
AppInfoOf(fs) ==
    LET roots == _steam_roots(fs)
        file(i) == read(fs, JoinAll(<<roots[i], S("appcache"), S("appinfo.vdf")>>))
        pairs(i) == IF file(i).ok THEN AppInfoIndex(file(i).v) ELSE <<>>
        Merged[i \in 0..Len(roots)] ==
            IF i = 0 THEN <<>>
            ELSE LET RECURSIVE Put(_, _)
                     Put(index, k) ==
                         IF k > Len(pairs(i)) THEN index
                         ELSE Put(DictSet(index, pairs(i)[k].k, pairs(i)[k].v), k + 1)
                 IN  Put(Merged[i - 1], 1)
    IN  Merged[Len(roots)]

-----------------------------------------------------------------------------
(* The scan of an app-info cache.                                          *)

Zeros(n) == [i \in 1..n |-> 0]

\* The KeyValues tree of an entry whose common block declares the type
AppInfoTree(type) ==
    EncObj(S("appinfo"),
           EncInt32(S("appid"), <<144, 1, 0, 0>>)
           \o EncObj(S("common"), EncStr(S("name"), S("x")) \o EncStr(S("type"), type)))
    \o <<type_end>>

\* One record: the appid, the size and the blob
CacheRecord(appid, size, blob) == appid \o size \o blob

\* The record of a blob with its true size
WholeRecord(appid, blob) ==
    CacheRecord(appid, <<Len(blob) % 256, Len(blob) \div 256, 0, 0>>, blob)

\* No tree at the fixed offsets, a common block behind its marker
MarkedBlob(type) ==
    Zeros(48) \o <<9>> \o common_marker \o EncStr(S("type"), type) \o <<type_end>>

\* No marker, the tagged key "type" after the word common
DirectBlob(type) ==
    Zeros(48) \o <<9>> \o S("common") \o <<0, 9>> \o type_marker \o type \o <<0>>

\* An entry whose tree has no common block
UntypedBlob ==
    Zeros(48) \o EncObj(S("appinfo"), EncStr(S("name"), S("x"))) \o <<type_end>>

\* The records a cache may hold.  bytes is the record; appid and type are
\* what it declares (no type: the entry has none); stops tells whether the
\* scan has to end at the record.
CacheRecords ==
    { \* the tree after 48 bytes of metadata, and after 40
      [bytes |-> WholeRecord(<<144, 1, 0, 0>>, Zeros(48) \o AppInfoTree(S("game"))),
       appid |-> S("400"), type |-> S("game"), stops |-> FALSE],
      [bytes |-> WholeRecord(<<244, 1, 0, 0>>, Zeros(40) \o AppInfoTree(S("tool"))),
       appid |-> S("500"), type |-> S("tool"), stops |-> FALSE],
      [bytes |-> WholeRecord(<<88, 2, 0, 0>>, MarkedBlob(S("demo"))),
       appid |-> S("600"), type |-> S("demo"), stops |-> FALSE],
      [bytes |-> WholeRecord(<<188, 2, 0, 0>>, DirectBlob(S("media"))),
       appid |-> S("700"), type |-> S("media"), stops |-> FALSE],
      [bytes |-> WholeRecord(<<32, 3, 0, 0>>, UntypedBlob),
       appid |-> S("800"), type |-> <<>>, stops |-> FALSE],
      \* the end sentinel
      [bytes |-> WholeRecord(<<0, 0, 0, 0>>, MarkedBlob(S("tool"))),
       appid |-> S("0"), type |-> <<>>, stops |-> TRUE],
      \* a size of zero
      [bytes |-> CacheRecord(<<132, 3, 0, 0>>, <<0, 0, 0, 0>>, <<>>),
       appid |-> S("900"), type |-> <<>>, stops |-> TRUE],
      \* a size beyond the rest of the file
      [bytes |-> CacheRecord(<<132, 3, 0, 0>>, <<255, 255, 0, 0>>, MarkedBlob(S("tool"))),
       appid |-> S("900"), type |-> <<>>, stops |-> TRUE],
      \* a size with its highest bit set
      [bytes |-> CacheRecord(<<132, 3, 0, 0>>, <<255, 255, 255, 255>>, MarkedBlob(S("tool"))),
       appid |-> S("900"), type |-> <<>>, stops |-> TRUE] }

\* The cache file with the given records
CacheOf(records) ==
    Zeros(header_size) \o Concat([i \in 1..Len(records) |-> records[i].bytes])

CacheTable ==
    {[data |-> CacheOf(records), records |-> records] :
        records \in SeqsUpTo(CacheRecords, MaxCacheRecords)}

InitAppInfo ==
    /\ cache \in {m.data : m \in CacheTable}
    /\ appinfo_call = NoAppInfoCall
    /\ disk = <<>>
    /\ libraries = [called |-> FALSE, v |-> <<>>]
    /\ games_call = NoCall
    /\ paths_call = NoCall
    /\ shortcuts_call = NoShortcutsCall
    /\ file_value = <<>>
    /\ text_call = NoTextCall
    /\ user_file = NoFile
    /\ system_file = NoFile
    /\ autostart_call = NoAutostartCall
    /\ item_autostart = FALSE
    /\ item_autohide = FALSE
    /\ autohide_sensitive = FALSE
    /\ _ticks = 0
    /\ _last = None
    /\ _games = <<>>
    /\ _paths = <<>>
    /\ proc = [listable |-> TRUE, entries |-> <<>>]
    /\ infos = <<>>
    /\ current_appids = None
    /\ prev_appids = None
    /\ emitted = FALSE
    /\ poll_result = FALSE
    /\ buffer = <<>>
    /\ vdf_call = NoVdfCall
    /\ argv = <<>>
    /\ cmd_call = NoCmdCall

ReadAppInfo ==
    /\ ~appinfo_call.called
    /\ appinfo_call' = [called |-> TRUE, v |-> AppInfoIndex(cache)]
    /\ UNCHANGED <<cache, watcherVars, catalogVars, vdfVars, cmdVars, shortcutVars, textVars, autostartVars>>

NextAppInfo == ReadAppInfo
SpecAppInfo == InitAppInfo /\ [][NextAppInfo]_vars

-----------------------------------------------------------------------------
(* The catalog queries on an installation with an app-info cache.          *)

\* The record of CacheRecords that declares the appid
RecordOf(appid) == CHOOSE r \in CacheRecords : r.appid = appid /\ ~r.stops

\* The caches of these installations: none, one without records, one that
\* knows a game and an entry without type, one that knows a tool and media
TypeCaches ==
    {[present |-> FALSE, data |-> <<>>],
     [present |-> TRUE, data |-> CacheOf(<<>>)],
     [present |-> TRUE, data |-> CacheOf(<<RecordOf(S("400")), RecordOf(S("800"))>>)],
     [present |-> TRUE, data |-> CacheOf(<<RecordOf(S("500")), RecordOf(S("700"))>>)]}

\* The installation fs with the cache in the appcache directory of its root
WithCache(fs, c) ==
    IF ~c.present THEN fs
    ELSE FsOf({[path |-> join(steam_root, S("appcache")),
                node |-> Dir(30, <<S("appinfo.vdf")>>)],
               [path |-> JoinAll(<<steam_root, S("appcache"), S("appinfo.vdf")>>),
                node |-> File(31, c.data)]}) @@ fs

TypedFileSystems ==
    {WithCache(MakeFs(FALSE, manifests, <<>>), c) :
        manifests \in SubsetsUpTo(1..Len(ManifestCandidates), MaxManifests),
        c \in TypeCaches}

InitTypes ==
    /\ disk \in TypedFileSystems
    /\ libraries = [called |-> FALSE, v |-> <<>>]
    /\ games_call = NoCall
    /\ paths_call = NoCall
    /\ shortcuts_call = NoShortcutsCall
    /\ cache = <<>>
    /\ appinfo_call = NoAppInfoCall
    /\ file_value = <<>>
    /\ text_call = NoTextCall
    /\ user_file = NoFile
    /\ system_file = NoFile
    /\ autostart_call = NoAutostartCall
    /\ item_autostart = FALSE
    /\ item_autohide = FALSE
    /\ autohide_sensitive = FALSE
    /\ _ticks = 0
    /\ _last = None
    /\ _games = <<>>
    /\ _paths = <<>>
    /\ proc = [listable |-> TRUE, entries |-> <<>>]
    /\ infos = <<>>
    /\ current_appids = None
    /\ prev_appids = None
    /\ emitted = FALSE
    /\ poll_result = FALSE
    /\ buffer = <<>>
    /\ vdf_call = NoVdfCall
    /\ argv = <<>>
    /\ cmd_call = NoCmdCall

SpecTypes == InitTypes /\ [][NextCatalog]_vars

-----------------------------------------------------------------------------
(* The properties checked.                                                 *)

\* C1: on every tick a change notification is emitted if and only if the
\* sorted list of distinct matched appids of the tick differs from the list
\* of the tick before (before the first tick there is none: None); two
\* consecutive ticks with the same list emit once.
C1_EmitsIffChanged ==
    _ticks >= 1 => (emitted <=> current_appids # prev_appids)

\* Two consecutive ticks have matched {220}: the second emitted nothing
C1_Witness ==
    /\ _ticks >= 2
    /\ current_appids = List(<<S("220")>>)
    /\ prev_appids = current_appids
    /\ ~emitted

\* The first of the values that is not empty, as _inspect_pid reports it
FirstNonEmpty(values) ==
    IF \E i \in 1..Len(values) : values[i] # <<>>
    THEN Str(values[CHOOSE i \in 1..Len(values) :
                        values[i] # <<>> /\ \A j \in 1..(i - 1) : values[j] = <<>>])
    ELSE None

\* C2: for every process inspected, the appid reported is the result of the
\* first strategy that yields one, in the order environment variables,
\* compat-data variable, command-line flag, installed-path match.
C2_FirstStrategyWins ==
    \A i \in 1..Len(infos) :
        infos[i].appid =
            FirstNonEmpty(<<_get_env_appid(infos[i].env),
                            _get_compat_appid(infos[i].env),
                            _get_cmd_appid(infos[i].cmdline),
                            _match_path_appid(_paths, infos[i].exe, infos[i].cwd,
                                              Join(<<32>>, infos[i].cmdline))>>)

\* SteamAppId=220 in the environment and --appid 330 on the command line:
\* the process resolves to 220
C2_Witness ==
    \E i \in 1..Len(infos) :
        /\ _get_env_appid(infos[i].env) = S("220")
        /\ _get_cmd_appid(infos[i].cmdline) = S("330")
        /\ infos[i].appid = Str(S("220"))

\* The manifests get_steam_installed_games reads in the libraries listed:
\* [appid, name, runtime], the appid taken from the file name when the file
\* holds none, runtime telling whether the query excludes the manifest
ManifestsRead(f, dirs) ==
    {[appid   |-> IF _parse_appmanifest(f, join(dirs[l], e)).appid # <<>>
                  THEN _parse_appmanifest(f, join(dirs[l], e)).appid
                  ELSE appid_from_name(e),
      name    |-> _parse_appmanifest(f, join(dirs[l], e)).name,
      runtime |-> _is_steam_runtime(_parse_appmanifest(f, join(dirs[l], e)).name, <<>>,
                      IF _parse_appmanifest(f, join(dirs[l], e)).appid # <<>>
                      THEN _parse_appmanifest(f, join(dirs[l], e)).appid
                      ELSE appid_from_name(e))] :
        <<l, e>> \in {x \in UNION {{<<l, listdir(f, dirs[l]).v[k]>> :
                                      k \in 1..Len(listdir(f, dirs[l]).v)} :
                                   l \in 1..Len(dirs)} :
                        /\ IsManifestName(x[2])
                        /\ _parse_appmanifest(f, join(dirs[x[1]], x[2])).ok}}

\* No two entries of a list share an appid
UniqueAppids(list) ==
    \A i, j \in 1..Len(list) : i # j => list[i].appid # list[j].appid

\* C3, as amended: the list get_steam_installed_games returns holds no appid
\* twice, and the entry of an appid that a manifest passing the runtime
\* filter has carries the name of such a manifest, also when a shortcut has
\* the same appid, whatever the order of the libraries.
C3_ListedManifestWins ==
    (games_call.called /\ ~games_call.raised) =>
        /\ UniqueAppids(games_call.v)
        /\ \A i \in 1..Len(games_call.v) :
               LET kept == {m \in ManifestsRead(disk, libraries.v) :
                               ~m.runtime /\ m.appid = games_call.v[i].appid}
               IN  kept # {} => \E m \in kept : m.name = games_call.v[i].name

\* Manifest 400 "Portal" and shortcut 400 "My Portal": one entry, "Portal"
C3_Witness ==
    /\ games_call.called
    /\ \E i \in 1..Len(get_steam_shortcuts(disk).v) :
           /\ get_steam_shortcuts(disk).v[i].appid = S("400")
           /\ get_steam_shortcuts(disk).v[i].name = S("My Portal")
    /\ \E i \in 1..Len(games_call.v) :
           games_call.v[i] = [appid |-> S("400"), name |-> S("Portal")]

\* C3 as stated: whenever a manifest and a shortcut have the same appid, the
\* entry of that appid carries the name of a manifest.
C3_AnyManifestWins ==
    (games_call.called /\ ~games_call.raised) =>
        /\ UniqueAppids(games_call.v)
        /\ \A i \in 1..Len(games_call.v) :
               LET present == {m \in ManifestsRead(disk, libraries.v) :
                               m.appid = games_call.v[i].appid}
                   cuts == {k \in 1..Len(get_steam_shortcuts(disk).v) :
                               get_steam_shortcuts(disk).v[k].appid = games_call.v[i].appid}
               IN  (present # {} /\ cuts # {}) => \E m \in present : m.name = games_call.v[i].name

\* C4: the list get_steam_installed_game_paths returns holds no appid twice.
C4_PathsUniqueAppids ==
    (paths_call.called /\ ~paths_call.raised) => UniqueAppids(paths_call.v)

\* C5: no entry of either catalog has a known runtime or tool appid.
C5_NoRuntimeAppid ==
    /\ games_call.called =>
           \A i \in 1..Len(games_call.v) : games_call.v[i].appid \notin known_runtime_appids
    /\ paths_call.called =>
           \A i \in 1..Len(paths_call.v) : paths_call.v[i].appid \notin known_runtime_appids

\* text holds one of the runtime substrings, ignoring case
HasRuntimeText(text) ==
    \E sub \in {S("proton"), S("steam linux runtime"),
                S("steamworks common redistributables"), S("steamworks shared")} :
        Contains(Lower(text), sub)

\* The manifests with a name and an installdir in the libraries listed
DetailsRead(f, dirs) ==
    {_parse_appmanifest_details(f, join(dirs[x[1]], x[2])) :
        x \in {y \in UNION {{<<l, listdir(f, dirs[l]).v[k]>> :
                               k \in 1..Len(listdir(f, dirs[l]).v)} :
                            l \in 1..Len(dirs)} :
                 /\ IsManifestName(y[2])
                 /\ _parse_appmanifest_details(f, join(dirs[y[1]], y[2])).ok}}

\* C6: a manifest whose name or installdir holds a runtime substring has no
\* entry in the list of either query form.
C6_SameExclusion ==
    \A m \in DetailsRead(disk, libraries.v) :
        (HasRuntimeText(m.name) \/ HasRuntimeText(m.installdir)) =>
            /\ games_call.called =>
                   \A i \in 1..Len(games_call.v) :
                       ~(games_call.v[i].appid = m.appid /\ games_call.v[i].name = m.name)
            /\ paths_call.called =>
                   \A i \in 1..Len(paths_call.v) :
                       ~(paths_call.v[i].appid = m.appid /\ paths_call.v[i].name = m.name)

\* list holds the entries of before, ordered by lowered name, entries with
\* equal lowered names in the order they have in before
StablySorted(before, list) ==
    /\ Len(list) = Len(before)
    /\ \A i \in 1..Len(before) :
           Cardinality({j \in 1..Len(list) : list[j] = before[i]})
               = Cardinality({j \in 1..Len(before) : before[j] = before[i]})
    /\ \A i, j \in 1..Len(list) :
           i < j => /\ ~StrLess(Lower(list[j].name), Lower(list[i].name))
                    /\ (Lower(list[i].name) = Lower(list[j].name)) =>
                           \E p, q \in 1..Len(before) :
                               p < q /\ before[p] = list[i] /\ before[q] = list[j]

\* C7: both lists are ordered by name compared ignoring case, and entries
\* whose names are equal ignoring case keep their insertion order.
C7_StableByLoweredName ==
    /\ (games_call.called /\ ~games_call.raised) =>
           StablySorted(games_call.before, games_call.v)
    /\ (paths_call.called /\ ~paths_call.raised) =>
           StablySorted(paths_call.before, paths_call.v)

\* Both lists hold two names equal ignoring case, and a name in capitals
\* after one in small letters
C7_Witness ==
    /\ games_call.called /\ paths_call.called
    /\ \E i, j \in 1..Len(games_call.v) :
           /\ i < j
           /\ games_call.v[i].name # games_call.v[j].name
           /\ Lower(games_call.v[i].name) = Lower(games_call.v[j].name)
    /\ \E i, j \in 1..Len(paths_call.v) :
           /\ i < j
           /\ paths_call.v[i].name # paths_call.v[j].name
           /\ Lower(paths_call.v[i].name) = Lower(paths_call.v[j].name)
    /\ \E i, j \in 1..Len(games_call.v) :
           i < j /\ StrLess(games_call.v[j].name, games_call.v[i].name)

\* The value of a digit string modulo 2^32 as <<high, low>> 16-bit halves,
\* digit by digit
RECURSIVE Value32(_)
Value32(digits) ==
    IF digits = <<>> THEN <<0, 0>>
    ELSE LET rest == Value32(SubSeq(digits, 1, Len(digits) - 1))
             low  == rest[2] * 10 + (digits[Len(digits)] - 48)
         IN  <<(rest[1] * 10 + low \div 65536) % 65536, low % 65536>>

\* text is the decimal form of a number below 2^32
IsDecimal32(text) ==
    /\ text # <<>>
    /\ \A i \in 1..Len(text) : text[i] \in 48..57
    /\ Len(text) > 1 => text[1] # 48
    /\ Len(text) <= 10
    /\ Len(text) = 10 => ~StrLess(S("4294967295"), text)

\* C8, as amended: the digits a flag pattern captures are returned unchanged
\* when they are at most 10 or more than int() converts, and otherwise as
\* the decimal form of their value modulo 2^32 ("99999999999" gives
\* "1215752191").
C8_MaskedWhereConverted ==
    (cmd_call.called /\ cmd_call.captured # <<>>) =>
        /\ (Len(cmd_call.captured) <= 10 \/ Len(cmd_call.captured) > MaxStrDigits) =>
               cmd_call.v = cmd_call.captured
        /\ (Len(cmd_call.captured) > 10 /\ Len(cmd_call.captured) <= MaxStrDigits) =>
               /\ IsDecimal32(cmd_call.v)
               /\ Value32(cmd_call.v) = Value32(cmd_call.captured)
        /\ cmd_call.captured = S("99999999999") => cmd_call.v = S("1215752191")

\* Eleven digits were captured and masked, and the value returned differs
C8_Witness ==
    /\ cmd_call.called
    /\ cmd_call.captured = S("99999999999")
    /\ cmd_call.v = S("1215752191")

\* C8 as stated: every captured string of more than 10 digits is returned as
\* the decimal form of its value modulo 2^32, a shorter one unchanged.
C8_MaskedBeyondTenDigits ==
    (cmd_call.called /\ cmd_call.captured # <<>>) =>
        /\ Len(cmd_call.captured) <= 10 => cmd_call.v = cmd_call.captured
        /\ Len(cmd_call.captured) > 10 =>
               /\ IsDecimal32(cmd_call.v)
               /\ Value32(cmd_call.v) = Value32(cmd_call.captured)

\* C9: no two entries of the list _steam_library_dirs returns are the same
\* directory.
C9_EachDirectoryOnce ==
    libraries.called =>
        \A i, j \in 1..Len(libraries.v) :
            i # j => disk[Lookup(libraries.v[i])].id # disk[Lookup(libraries.v[j])].id

\* C10: _parse_binary_vdf raises on no buffer; where it stops at a value cut
\* short or at a tag that is no type, the offset is the end of the buffer and
\* the tree is the one decoded from the bytes before that point.
C10_NeverRaises ==
    vdf_call.called =>
        /\ ~vdf_call.raised
        /\ vdf_call.stop # -1 =>
               /\ vdf_call.idx = Len(buffer)
               /\ vdf_call.obj = _parse_binary_vdf(SubSeq(buffer, 1, vdf_call.stop)).v

\* C11: for a well-formed buffer built from a tree with distinct keys in
\* each object, _parse_binary_vdf returns that tree: the same keys, nesting
\* and values, int32 signed, pointer and uint64 unsigned.
C11_ReturnsTheTree ==
    vdf_call.called =>
        \A tree \in Trees :
            buffer = BufferOf(tree) => ~vdf_call.raised /\ vdf_call.obj = tree.items

\* Whether text contains one of the three words of the Steam client,
\* compared in lower case
HasClientWord(text) ==
    \E word \in {steam, pressure_vessel, reaper} : Contains(Lower(text), word)

\* C12: a process inspected is marked as a Steam-client process exactly when
\* its resolved executable or its full command line contains 'steam',
\* 'pressure-vessel' or 'reaper' in any case, so also when only the
\* executable does.
C12_MarkedByExeOrCmdline ==
    \A i \in 1..Len(infos) :
        infos[i].steam_client <=>
            HasClientWord(infos[i].exe) \/ HasClientWord(Join(<<32>>, infos[i].cmdline))

\* The records of the shortcuts files on the disk, in the order in which
\* get_steam_shortcuts meets them: file by file, record by record
RecordsMet ==
    LET layout == (CHOOSE m \in ProfileTable : m.fs = disk).layout
        Of(user) == IF user = S("1") THEN layout.first ELSE layout.second.records
    IN  Of(layout.order[1]) \o Of(layout.order[2])

\* A record with an appid and a name
Named(record) == record.appid # <<>> /\ record.name # <<>>

\* C13: the list returned by get_steam_shortcuts holds each appid at most
\* once, every entry carries the name of the first record with its appid and
\* a name in file order then record order, and every such appid is listed:
\* a record without a name does not keep a later one out.
C13_FirstNamedRecordWins ==
    shortcuts_call.called /\ ~shortcuts_call.raised =>
        LET out == shortcuts_call.v
            met == RecordsMet
        IN  /\ \A i, j \in 1..Len(out) : i # j => out[i].appid # out[j].appid
            /\ \A i \in 1..Len(out) :
                  \E k \in 1..Len(met) :
                      /\ Named(met[k]) /\ met[k].appid = out[i].appid
                      /\ \A j \in 1..(k - 1) :
                            ~(Named(met[j]) /\ met[j].appid = out[i].appid)
                      /\ out[i].name = met[k].name
            /\ \A k \in 1..Len(met) :
                  Named(met[k]) => \E i \in 1..Len(out) : out[i].appid = met[k].appid

\* A record of appid 400 without a name, then two with a name: the list has
\* one entry for 400, named by the first of the two
C13_Witness ==
    /\ shortcuts_call.called /\ ~shortcuts_call.raised
    /\ Len(RecordsMet) = 3
    /\ RecordsMet[1].appid = S("400") /\ RecordsMet[1].name = <<>>
    /\ RecordsMet[2].appid = S("400") /\ RecordsMet[2].name # <<>>
    /\ RecordsMet[3].appid = S("400") /\ RecordsMet[3].name \notin {<<>>, RecordsMet[2].name}
    /\ \E i \in 1..Len(shortcuts_call.v) :
          /\ shortcuts_call.v[i].appid = S("400")
          /\ shortcuts_call.v[i].name = RecordsMet[2].name

\* C14: every entry returned by get_steam_shortcuts has a non-empty name and
\* an appid that is the decimal form of an integer in [0, 2^32), and it
\* comes from a record with a name and an integer appid, a signed 32-bit v
\* being listed as v mod 2^32; a record with no integer appid or no name is
\* never returned.
C14_NamedWithIntegerAppid ==
    shortcuts_call.called /\ ~shortcuts_call.raised =>
        \A i \in 1..Len(shortcuts_call.v) :
            /\ shortcuts_call.v[i].name # <<>>
            /\ IsDecimal32(shortcuts_call.v[i].appid)
            /\ \E k \in 1..Len(RecordsMet) :
                  /\ RecordsMet[k].integer /\ RecordsMet[k].name # <<>>
                  /\ RecordsMet[k].appid = shortcuts_call.v[i].appid
                  /\ RecordsMet[k].name = shortcuts_call.v[i].name

\* The records before the first one at which the scan has to end
RECURSIVE BeforeStop(_)
BeforeStop(records) ==
    IF records = <<>> \/ records[1].stops THEN <<>>
    ELSE <<records[1]>> \o BeforeStop(Tail(records))

\* C16: the scan of the app-info cache ends at the first record whose size
\* is not positive or exceeds the bytes left, or whose appid is 0, and
\* returns the mapping with exactly the appid -> type pairs of the records
\* before it.
C16_StopsKeepingEarlier ==
    appinfo_call.called =>
        \A m \in CacheTable :
            m.data = cache =>
                /\ \A i, j \in 1..Len(appinfo_call.v) :
                      i # j => appinfo_call.v[i].k # appinfo_call.v[j].k
                /\ Range(appinfo_call.v)
                       = {[k |-> r.appid, v |-> r.type] :
                             r \in {x \in Range(BeforeStop(m.records)) : x.type # <<>>}}

\* A record with a type, a record at which the scan ends, another record
\* with a type: the mapping holds the first pair alone
C16_Witness ==
    /\ appinfo_call.called
    /\ \E m \in CacheTable :
          /\ m.data = cache
          /\ Len(m.records) = 3
          /\ m.records[1].type # <<>>
          /\ m.records[2].stops /\ m.records[2].appid # S("0")
          /\ m.records[3].type # <<>> /\ m.records[3].appid # m.records[1].appid
          /\ appinfo_call.v = <<[k |-> m.records[1].appid, v |-> m.records[1].type]>>

\* C15: when the app-info index of the installation has entries,
\* get_steam_installed_games lists no manifest whose appid has a type other
\* than "game" in it, and it lists every manifest that passes the runtime
\* filter and has no type or the type "game"; with an empty index every
\* manifest that passes the runtime filter is listed.
C15_TypeFilter ==
    (games_call.called /\ ~games_call.raised) =>
        \A m \in ManifestsRead(disk, libraries.v) :
            IF HasKey(AppInfoOf(disk), m.appid) /\ Get(AppInfoOf(disk), m.appid) # S("game")
            THEN \A i \in 1..Len(games_call.v) : games_call.v[i].appid # m.appid
            ELSE ~m.runtime => \E i \in 1..Len(games_call.v) : games_call.v[i].appid = m.appid

\* The appids the entries of the process table read by the tick resolve to,
\* each entry looked at on its own
AppidsOfTable ==
    {InfoOf(_games, _list_pids(proc)[i]).appid.v :
        i \in {k \in 1..Len(_list_pids(proc)) :
                  InfoOf(_games, _list_pids(proc)[k]).appid # None}}

\* C17: a tick returns True and classifies every pid of the process table,
\* whatever could not be read of any of them: there is one info per pid, in
\* the order of the table, and the appid set of the tick holds the appid of
\* every pid that resolves to one.
C17_UnreadablePidSkipsNothing ==
    _ticks >= 1 =>
        /\ poll_result
        /\ Len(infos) = Len(_list_pids(proc))
        /\ \A i \in 1..Len(infos) : infos[i].pid = PidOf(_list_pids(proc)[i].name)
        /\ current_appids = List(SortedStrs(AppidsOfTable))

\* A pid of which nothing can be read comes before a game: the game is in
\* the set of the tick
C17_Witness ==
    /\ _ticks >= 1 /\ poll_result
    /\ Len(_list_pids(proc)) = 2
    /\ ~_list_pids(proc)[1].exe.ok /\ ~_list_pids(proc)[1].environ.ok
    /\ ~_list_pids(proc)[1].cmdline.ok
    /\ _list_pids(proc)[2].exe.ok
    /\ infos[2].appid = Str(S("220"))
    /\ current_appids = List(<<S("220")>>)

\* The games of the catalog whose path, normalised, matches the process
MatchingGames(info) ==
    {k \in 1..Len(_games) :
        \/ info.exe # <<>> /\ StartsWith(info.exe, normpath(_games[k].path))
        \/ info.cwd # <<>> /\ StartsWith(info.cwd, normpath(_games[k].path))
        \/ /\ info.cmdline # <<>>
           /\ Contains(Join(<<32>>, info.cmdline), normpath(_games[k].path))}

\* No signal of the environment or the command line names an appid
PathStrategyReached(info) ==
    /\ _get_env_appid(info.env) = <<>>
    /\ _get_compat_appid(info.env) = <<>>
    /\ _get_cmd_appid(info.cmdline) = <<>>

\* C18: when the path strategy is reached and installed-game paths match
\* the process, the appid reported is the one of a longest matching path.
C18_LongestPathWins ==
    \A i \in 1..Len(infos) :
        (PathStrategyReached(infos[i]) /\ MatchingGames(infos[i]) # {}) =>
            \E k \in MatchingGames(infos[i]) :
                /\ infos[i].appid = Str(_games[k].appid)
                /\ \A j \in MatchingGames(infos[i]) :
                      Len(normpath(_games[j].path)) <= Len(normpath(_games[k].path))

\* An executable under hl2/bin, which is installed inside hl2: both games
\* match and the process resolves to the inner one
C18_Witness ==
    \E i \in 1..Len(infos) :
        /\ PathStrategyReached(infos[i])
        /\ Cardinality(MatchingGames(infos[i])) = 2
        /\ infos[i].appid = Str(S("290930"))

-----------------------------------------------------------------------------
(* The catalog queries on an installation of which one item cannot be      *)
(* read or is gone.                                                        *)

\* fs with the node at path denied to its reader: open() and os.listdir()
\* raise PermissionError, os.path.isdir and os.path.isfile answer as before
Denied(fs, path) == [fs EXCEPT ![path].readable = FALSE]

\* fs without the node at path and all below it, the directory above still
\* naming it (a dangling link, or a removal after the listing): open() and
\* os.listdir() raise FileNotFoundError, isdir and isfile are False
Gone(fs, path) ==
    [p \in {q \in DOMAIN fs : q # path /\ ~StartsWith(q, path \o <<47>>)} |-> fs[p]]

\* The manifests and shortcuts the damaged installations are made of
DamagedManifests == {1, 2, 7, 8}
DamagedPicks == {<<>>, <<1>>, <<2>>}

root_apps == join(steam_root, steamapps)
lib_apps == S("/home/u/lib/steamapps")
shortcuts_path == JoinAll(<<steam_root, S("userdata"), S("1"), S("config"), S("shortcuts.vdf")>>)

\* The path of manifest k
ManifestPath(k) ==
    join(IF ManifestCandidates[k].lib = 1 THEN root_apps ELSE lib_apps,
         ManifestCandidates[k].entry)

\* One damage done to the installation with the manifests and picks:
\* [kind, fs, manifests, picks, rooted], fs being the damaged installation
\* and manifests, picks what is left of it for its readers (rooted: a Steam
\* root is left)
Damages(manifests, picks) ==
    LET whole == MakeFs(FALSE, manifests, picks)
        D(kind, fs, ms, ps) ==
            [kind |-> kind, fs |-> fs, manifests |-> ms, picks |-> ps, rooted |-> TRUE]
    IN  {D("manifest denied", Denied(whole, ManifestPath(k)), manifests \ {k}, picks) :
            k \in manifests}
        \cup {D("manifest gone", Gone(whole, ManifestPath(k)), manifests \ {k}, picks) :
                 k \in manifests}
        \cup {D("library denied", Denied(whole, lib_apps), InLib(manifests, 1), picks),
              D("library gone", Gone(whole, lib_apps), InLib(manifests, 1), picks),
              D("root library denied", Denied(whole, root_apps), InLib(manifests, 2), picks),
              D("libraryfolders denied",
                Denied(whole, join(root_apps, S("libraryfolders.vdf"))),
                InLib(manifests, 1), picks),
              D("libraryfolders gone",
                Gone(whole, join(root_apps, S("libraryfolders.vdf"))),
                InLib(manifests, 1), picks),
              D("userdata denied", Denied(whole, join(steam_root, S("userdata"))),
                manifests, <<>>),
              [kind |-> "root gone", fs |-> Gone(whole, steam_root),
               manifests |-> {}, picks |-> <<>>, rooted |-> FALSE]}
        \cup (IF picks = <<>> THEN {}
              ELSE {D("shortcuts denied", Denied(whole, shortcuts_path), manifests, <<>>),
                    D("shortcuts gone", Gone(whole, shortcuts_path), manifests, <<>>)})

\* What the readers of the installation left by a damage return, for each
\* order of its libraries
LeftOf(d) ==
    IF ~d.rooted THEN [games |-> {<<>>}, paths |-> {<<>>}]
    ELSE LET left == MakeFs(FALSE, d.manifests, d.picks)
         IN  [games |-> {get_steam_installed_games(left, ld).v :
                            ld \in _steam_library_dirs(left)},
              paths |-> {get_steam_installed_game_paths(left, ld).v :
                            ld \in _steam_library_dirs(left)}]

DamageTable ==
    {[kind |-> d.kind, fs |-> d.fs, left |-> LeftOf(d)] :
        d \in UNION {Damages(manifests, picks) :
                        manifests \in SubsetsUpTo(DamagedManifests, MaxManifests),
                        picks \in DamagedPicks}}

InitDamaged ==
    /\ disk \in {m.fs : m \in DamageTable}
    /\ libraries = [called |-> FALSE, v |-> <<>>]
    /\ games_call = NoCall
    /\ paths_call = NoCall
    /\ shortcuts_call = NoShortcutsCall
    /\ cache = <<>>
    /\ appinfo_call = NoAppInfoCall
    /\ file_value = <<>>
    /\ text_call = NoTextCall
    /\ user_file = NoFile
    /\ system_file = NoFile
    /\ autostart_call = NoAutostartCall
    /\ item_autostart = FALSE
    /\ item_autohide = FALSE
    /\ autohide_sensitive = FALSE
    /\ _ticks = 0
    /\ _last = None
    /\ _games = <<>>
    /\ _paths = <<>>
    /\ proc = [listable |-> TRUE, entries |-> <<>>]
    /\ infos = <<>>
    /\ current_appids = None
    /\ prev_appids = None
    /\ emitted = FALSE
    /\ poll_result = FALSE
    /\ buffer = <<>>
    /\ vdf_call = NoVdfCall
    /\ argv = <<>>
    /\ cmd_call = NoCmdCall

SpecDamaged == InitDamaged /\ [][NextCatalog]_vars

BodyAppids ==
    <<S("400"), S("400"), S("1391110"), S("500"), S("600"), <<>>, S("220"), S("800"),
      S("290930"), S("440")>>
FileIds ==
    <<S("400"), S("400"), S("1391110"), S("500"), S("600"), S("700"), S("220"), S("800"),
      S("290930"), S("999")>>
RuntimeManifests == {3, 5}

\* The manifests of the model that the installation holds
ManifestsOn(fs) ==
    {k \in 1..Len(ManifestCandidates) : Lookup(ManifestPath(k)) \in DOMAIN fs}

\* The appid a manifest is to be listed under
ListedAppid(k) == IF BodyAppids[k] # <<>> THEN BodyAppids[k] ELSE FileIds[k]

\* C21: every manifest with a name that is no runtime is listed by
\* get_steam_installed_games under the appid of its body, and under the id
\* of its file name when the body has none; the id of the file name of a
\* manifest whose body names another appid is not listed for it.
C21_BodyAppidElseFileName ==
    (games_call.called /\ ~games_call.raised) =>
        /\ \A k \in ManifestsOn(disk) \ RuntimeManifests :
              \E i \in 1..Len(games_call.v) : games_call.v[i].appid = ListedAppid(k)
        /\ \A i \in 1..Len(games_call.v) :
              \/ \E k \in ManifestsOn(disk) : games_call.v[i].appid = ListedAppid(k)
              \/ \E j \in 1..Len(get_steam_shortcuts(disk).v) :
                    games_call.v[i].appid = get_steam_shortcuts(disk).v[j].appid

\* The manifest without an appid and the one copied under another file name
\* are both installed: they are listed as 700 and 440
C21_Witness ==
    /\ games_call.called /\ ~games_call.raised
    /\ ManifestsOn(disk) = {6, 10}
    /\ {games_call.v[i] : i \in 1..Len(games_call.v)}
           = {[appid |-> S("700"), name |-> S("alpha")],
              [appid |-> S("440"), name |-> S("Team Fortress 2")]}

-----------------------------------------------------------------------------
(* The text scanners on a file with one value between quotes.              *)

\* The values written: a letter, a slash, a backslash and a double quote in
\* every arrangement
Values == SeqsUpTo({97, 47, Backslash, Quote}, MaxValue) \ {<<>>}

\* value as Steam writes it between quotes: a backslash before every
\* backslash and every double quote
RECURSIVE Escaped(_)
Escaped(value) ==
    IF value = <<>> THEN <<>>
    ELSE (IF value[1] \in {Backslash, Quote} THEN <<Backslash, value[1]>> ELSE <<value[1]>>)
         \o Escaped(Tail(value))

text_path == S("/home/u/file")

\* The installation with nothing but the file of the given bytes
OneFile(bytes) == FsOf({[path |-> text_path, node |-> File(1, bytes)]})

\* An app manifest named value
ManifestNamed(value) == Acf(KV(S("appid"), S("10")) \o KV(S("name"), Escaped(value)))

\* A libraryfolders.vdf with the one library value
FoldersNaming(value) ==
    Q(S("libraryfolders")) \o <<10, 123, 10>>
    \o <<9>> \o Q(S("0")) \o <<10, 9, 123, 10, 9>> \o KV(S("path"), Escaped(value))
    \o <<9, 125, 10>> \o <<125, 10>>

InitText ==
    /\ disk = <<>>
    /\ libraries = [called |-> FALSE, v |-> <<>>]
    /\ games_call = NoCall
    /\ paths_call = NoCall
    /\ shortcuts_call = NoShortcutsCall
    /\ cache = <<>>
    /\ appinfo_call = NoAppInfoCall
    /\ file_value \in Values
    /\ text_call = NoTextCall
    /\ user_file = NoFile
    /\ system_file = NoFile
    /\ autostart_call = NoAutostartCall
    /\ item_autostart = FALSE
    /\ item_autohide = FALSE
    /\ autohide_sensitive = FALSE
    /\ _ticks = 0
    /\ _last = None
    /\ _games = <<>>
    /\ _paths = <<>>
    /\ proc = [listable |-> TRUE, entries |-> <<>>]
    /\ infos = <<>>
    /\ current_appids = None
    /\ prev_appids = None
    /\ emitted = FALSE
    /\ poll_result = FALSE
    /\ buffer = <<>>
    /\ vdf_call = NoVdfCall
    /\ argv = <<>>
    /\ cmd_call = NoCmdCall


ParseAppmanifest ==
    /\ ~text_call.called
    /\ \E parsed \in {_parse_appmanifest(OneFile(ManifestNamed(file_value)), text_path)} :
         text_call' = [called |-> TRUE, of |-> "manifest", found |-> parsed.ok,
                       values |-> IF parsed.ok THEN {parsed.name} ELSE {}]
    /\ UNCHANGED <<file_value, watcherVars, catalogVars, vdfVars, cmdVars, shortcutVars, appinfoVars, autostartVars>>

ParseLibraryfolders ==
    /\ ~text_call.called
    /\ text_call' = [called |-> TRUE, of |-> "libraryfolders", found |-> TRUE,
                     values |-> _parse_libraryfolders(OneFile(FoldersNaming(file_value)), text_path)]
    /\ UNCHANGED <<file_value, watcherVars, catalogVars, vdfVars, cmdVars, shortcutVars, appinfoVars, autostartVars>>

NextText == ParseAppmanifest \/ ParseLibraryfolders
SpecText == InitText /\ [][NextText]_vars

\* C22: a value with a backslash or a double quote in it, written between
\* quotes with its escape sequences, is returned whole and unescaped by the
\* scanner of the manifest and by the scanner of the library folders.
C22_EscapedValueWhole ==
    (text_call.called /\ (Backslash \in Range(file_value) \/ Quote \in Range(file_value))) =>
        text_call.found /\ text_call.values = {file_value}

\* C23: a tick that emits a notification stores the list the notification
\* carries in _last, a tick that emits none leaves _last as it was: after
\* every tick _last is the list of the latest notification.
C23_LastIsLatestNotified ==
    [][_ticks' = _ticks + 1 =>
          /\ emitted' => _last' = current_appids'
          /\ ~emitted' => _last' = _last /\ _last # None]_vars

\* A third tick emits nothing after a notification of a running game: the
\* stored list is still the one notified
C23_Witness ==
    /\ _ticks = 3 /\ ~emitted
    /\ _last # None /\ _last.v # <<>>
    /\ _last = current_appids

\* C24: the first tick after construction emits a notification, whatever
\* the process table holds: the stored list was None, which no computed list
\* equals, and the notification carries the list of the tick, the empty
\* one when nothing matches.
C24_FirstTickEmits ==
    _ticks = 1 => emitted /\ prev_appids = None /\ _last = current_appids /\ _last # None

\* The first tick finds processes, none of them a game: it has notified
\* the empty list
C24_Witness ==
    /\ _ticks = 1 /\ emitted
    /\ Len(infos) >= 1
    /\ current_appids = List(<<>>)
    /\ _last = List(<<>>)

\* C27: a process the path strategy attributes to an appid has the
\* normalised install path of a game of that appid at the start of its
\* executable, of its working directory or of its command line text.
C27_PathIsLeadingPrefix ==
    \A i \in 1..Len(infos) :
        (PathStrategyReached(infos[i]) /\ infos[i].appid # None) =>
            \E k \in 1..Len(_games) :
                /\ infos[i].appid = Str(_games[k].appid)
                /\ \/ StartsWith(infos[i].exe, normpath(_games[k].path))
                   \/ StartsWith(infos[i].cwd, normpath(_games[k].path))
                   \/ StartsWith(Join(<<32>>, infos[i].cmdline), normpath(_games[k].path))

\* C25: an end tag closes the innermost open object only.  The entries
\* after the end tag of a nested object are entries of its parent, and the
\* end tag of the root object ends the parse: the bytes after it change
\* nothing of the tree returned.
C25_EndClosesInnermost ==
    vdf_call.called =>
        \A m \in TailedTable :
            buffer = m.buffer =>
                /\ ~vdf_call.raised
                /\ vdf_call.obj = m.items
                /\ vdf_call.idx = m.end

\* Two levels of nested objects, entries after each of their end tags, and
\* an entry after the end tag of the root, which is left out
C25_Witness ==
    /\ vdf_call.called /\ ~vdf_call.raised
    /\ vdf_call.idx < Len(buffer)
    /\ \E m \in TailedTable : buffer = m.buffer /\ vdf_call.obj = m.items
    /\ Len(vdf_call.obj) = 3
    /\ HasKey(vdf_call.obj, S("c")) /\ ~HasKey(vdf_call.obj, S("z"))
    /\ Len(Get(vdf_call.obj, S("a")).v) = 2

\* C26: the parse of a buffer ends with offsets inside the buffer.  Every
\* iteration of the loop of parse_obj, wherever in the buffer it is
\* entered, leaves an offset greater than the one it started from and no
\* greater than the length of the buffer; so do _read_cstring and
\* _read_wstring for the offset they return (which is no smaller than the
\* one they are given), and parse_obj for the offset of the root.
C26_OffsetsAdvanceInsideBuffer ==
    vdf_call.called =>
        /\ ~vdf_call.raised => vdf_call.idx <= Len(buffer)
        /\ \A i \in 0..Len(buffer) :
              /\ _read_cstring(buffer, i).idx \in i..Len(buffer)
              /\ _read_wstring(buffer, i).idx \in i..Len(buffer)
        /\ \A i \in 0..(Len(buffer) - 1) :
              ~IterationEnd(buffer, i).raised =>
                  IterationEnd(buffer, i).idx \in (i + 1)..Len(buffer)

\* A file cut inside its UTF-16 string, one byte after a whole code unit and
\* before the terminating NULs: the parse ends at the length of the buffer
C26_Witness ==
    /\ vdf_call.called /\ ~vdf_call.raised
    /\ buffer = SubSeq(WholeFile, 1, Len(WholeFile) - 4)
    /\ _read_wstring(buffer, Len(buffer) - 3).idx = Len(buffer) - 1
    /\ vdf_call.idx = Len(buffer)

\* C28: on one installation, every appid of the list
\* get_steam_installed_game_paths returns is an appid of the list
\* get_steam_installed_games returns.
C28_PathsAreListedGames ==
    (games_call.called /\ ~games_call.raised /\ paths_call.called /\ ~paths_call.raised) =>
        \A i \in 1..Len(paths_call.v) :
            \E j \in 1..Len(games_call.v) : games_call.v[j].appid = paths_call.v[i].appid

\* An installation with a manifest and a shortcut of another appid: both
\* have a path, both are listed
C28_Witness ==
    /\ games_call.called /\ ~games_call.raised
    /\ paths_call.called /\ ~paths_call.raised
    /\ Cardinality(ManifestsOn(disk)) = 1
    /\ Len(get_steam_shortcuts(disk).v) = 1
    /\ Len(paths_call.v) = 2 /\ Len(games_call.v) = 2
    /\ paths_call.v[1].appid # paths_call.v[2].appid

-----------------------------------------------------------------------------
(* The autostart files (user_interface.py).  A file is                     *)
(*   [exists |-> is it a regular file, lines |-> its lines];               *)
(* the user's file and the system's are the two paths of                   *)
(* _autostart_user_path and _autostart_system_path.                        *)

AUTOSTART_HIDDEN_KEY == S("X-Input-Remapper-AutoHidden")

FileOf(lines) == [exists |-> TRUE, lines |-> lines]

\* "key, value = line.strip().split('=', 1)", both stripped, for a line
\* with an "=" in it
KeyOf(line) ==
    LET text == StripChars(line, Spaces)
    IN  StripChars(SubSeq(text, 1, FirstIndex(text, 61) - 1), Spaces)
ValueOf(line) ==
    LET text == StripChars(line, Spaces)
    IN  StripChars(SubSeq(text, FirstIndex(text, 61) + 1, Len(text)), Spaces)

\* The lines of a file that have an "=" in them
Assignments(file) == SelectSeq(file.lines, LAMBDA line : 61 \in Range(line))

\* _read_autostart_file: the dict of the file, {} for a file that is not
\* there
RECURSIVE ReadLines(_, _, _)
ReadLines(lines, i, data) ==
    IF i > Len(lines) THEN data
    ELSE ReadLines(lines, i + 1, DictSet(data, KeyOf(lines[i]), ValueOf(lines[i])))

_read_autostart_file(file) ==
    IF ~file.exists THEN <<>> ELSE ReadLines(Assignments(file), 1, <<>>)

_autostart_file_disabled(file) ==
    /\ file.exists
    /\ \E i \in 1..Len(Assignments(file)) :
          LET key   == Lower(KeyOf(Assignments(file)[i]))
              value == Lower(ValueOf(Assignments(file)[i]))
          IN  \/ key = S("hidden") /\ value = S("true")
              \/ key = S("x-gnome-autostart-enabled") /\ value = S("false")

get_autostart_enabled(user, system) ==
    IF user.exists THEN ~_autostart_file_disabled(user)
    ELSE IF system.exists THEN ~_autostart_file_disabled(system)
    ELSE FALSE

get_autostart_hidden(user) ==
    IF ~user.exists THEN FALSE
    ELSE LET data == _read_autostart_file(user)
         IN  IF HasKey(data, AUTOSTART_HIDDEN_KEY)
             THEN Lower(StripChars(Get(data, AUTOSTART_HIDDEN_KEY), Spaces)) = S("true")
             ELSE /\ HasKey(data, S("Exec"))
                  /\ Contains(Get(data, S("Exec")), S("INPUT_REMAPPER_START_HIDDEN=1"))

\* A variant that writes the hidden flag under the key of the desktop entry
_write_autostart_file_hiding(enabled, hidden) ==
    <<S("[Desktop Entry]"), S("Type=Application"), S("Name=input-remapper-gtk"),
      S("Exec=") \o (IF hidden THEN S("env INPUT_REMAPPER_START_HIDDEN=1 input-remapper-gtk")
                     ELSE S("input-remapper-gtk")),
      S("Icon=input-remapper"),
      S("Hidden=") \o (IF hidden THEN S("true") ELSE S("false"))>>
    \o (IF enabled THEN <<S("X-GNOME-Autostart-enabled=true")>>
        ELSE <<S("Hidden=true"), S("X-GNOME-Autostart-enabled=false")>>)

\* The lines _write_autostart_file writes
_write_autostart_file(enabled, hidden) ==
    <<S("[Desktop Entry]"), S("Type=Application"), S("Name=input-remapper-gtk"),
      S("Exec=") \o (IF hidden THEN S("env INPUT_REMAPPER_START_HIDDEN=1 input-remapper-gtk")
                     ELSE S("input-remapper-gtk")),
      S("Icon=input-remapper"),
      AUTOSTART_HIDDEN_KEY \o S("=") \o (IF hidden THEN S("true") ELSE S("false"))>>
    \o (IF enabled THEN <<S("X-GNOME-Autostart-enabled=true")>>
        ELSE <<S("Hidden=true"), S("X-GNOME-Autostart-enabled=false")>>)

\* What becomes of a write: the file is written; os.makedirs or open raises
\* OSError and the file stays as it was; open has emptied the file and the
\* write raises OSError
Outcomes == {"written", "refused", "emptied"}

\* The user's file after a write of lines with that outcome
Written(file, lines, outcome) ==
    IF outcome = "written" THEN FileOf(lines)
    ELSE IF outcome = "emptied" THEN FileOf(<<>>)
    ELSE file

\* set_autostart_enabled: [ok, file], file being the user's file after it
set_autostart_enabled(user, enabled, outcome) ==
    [ok   |-> outcome = "written",
     file |-> Written(user, _write_autostart_file(enabled, get_autostart_hidden(user)), outcome)]

\* set_autostart_hidden: [ok, file]
set_autostart_hidden(user, system, hidden, outcome) ==
    [ok   |-> outcome = "written",
     file |-> Written(user, _write_autostart_file(get_autostart_enabled(user, system), hidden),
                      outcome)]

\* The files the session may start with: none, the four files the
\* application writes, an empty file, and files written by hand or by the
\* desktop's settings
UserFiles ==
    {NoFile, FileOf(<<>>)}
    \cup {FileOf(_write_autostart_file(e, h)) : e \in BOOLEAN, h \in BOOLEAN}
    \cup {FileOf(<<S("[Desktop Entry]"),
                   S("Exec=env INPUT_REMAPPER_START_HIDDEN=1 input-remapper-gtk")>>),
          FileOf(<<S("[Desktop Entry]"), S("Exec=input-remapper-gtk"),
                   S(" X-GNOME-Autostart-Enabled = False ")>>),
          FileOf(<<S("Exec=input-remapper-gtk"), S("X-Input-Remapper-AutoHidden= TRUE"),
                   S("Hidden=True")>>)}
SystemFiles ==
    {NoFile,
     FileOf(<<S("[Desktop Entry]"), S("Type=Application"), S("Exec=input-remapper-gtk")>>),
     FileOf(<<S("[Desktop Entry]"), S("Exec=input-remapper-gtk"), S("Hidden=true")>>)}

InitAutostart ==
    /\ disk = <<>>
    /\ libraries = [called |-> FALSE, v |-> <<>>]
    /\ games_call = NoCall
    /\ paths_call = NoCall
    /\ shortcuts_call = NoShortcutsCall
    /\ cache = <<>>
    /\ appinfo_call = NoAppInfoCall
    /\ file_value = <<>>
    /\ text_call = NoTextCall
    /\ user_file \in UserFiles
    /\ system_file \in SystemFiles
    /\ autostart_call = NoAutostartCall
    /\ item_autostart = FALSE
    /\ item_autohide = FALSE
    /\ autohide_sensitive = FALSE
    /\ _ticks = 0
    /\ _last = None
    /\ _games = <<>>
    /\ _paths = <<>>
    /\ proc = [listable |-> TRUE, entries |-> <<>>]
    /\ infos = <<>>
    /\ current_appids = None
    /\ prev_appids = None
    /\ emitted = FALSE
    /\ poll_result = FALSE
    /\ buffer = <<>>
    /\ vdf_call = NoVdfCall
    /\ argv = <<>>
    /\ cmd_call = NoCmdCall


SetAutostartEnabled ==
    \E enabled \in BOOLEAN, outcome \in Outcomes :
      \E r \in {set_autostart_enabled(user_file, enabled, outcome)} :
        /\ autostart_call' =
               [called |-> TRUE, of |-> "enabled", arg |-> enabled, ok |-> r.ok,
                enabled_before |-> get_autostart_enabled(user_file, system_file),
                hidden_before  |-> get_autostart_hidden(user_file)]
        /\ user_file' = r.file
        /\ UNCHANGED <<system_file, item_autostart, item_autohide, autohide_sensitive,
                       watcherVars, catalogVars, vdfVars, cmdVars, shortcutVars, appinfoVars,
                       textVars>>

SetAutostartHidden ==
    \E hidden \in BOOLEAN, outcome \in Outcomes :
      \E r \in {set_autostart_hidden(user_file, system_file, hidden, outcome)} :
        /\ autostart_call' =
               [called |-> TRUE, of |-> "hidden", arg |-> hidden, ok |-> r.ok,
                enabled_before |-> get_autostart_enabled(user_file, system_file),
                hidden_before  |-> get_autostart_hidden(user_file)]
        /\ user_file' = r.file
        /\ UNCHANGED <<system_file, item_autostart, item_autohide, autohide_sensitive,
                       watcherVars, catalogVars, vdfVars, cmdVars, shortcutVars, appinfoVars,
                       textVars>>

NextAutostart == SetAutostartEnabled \/ SetAutostartHidden
SpecAutostart == InitAutostart /\ [][NextAutostart]_vars

\* C29: after set_autostart_enabled(e) has returned True,
\* get_autostart_enabled() is e and get_autostart_hidden() is what it was
\* before the call; after set_autostart_hidden(h) has returned True,
\* get_autostart_hidden() is h and get_autostart_enabled() is what it was
\* before the call.
C29_FlagsRoundTripApart ==
    (autostart_call.called /\ autostart_call.ok) =>
        IF autostart_call.of = "enabled"
        THEN /\ get_autostart_enabled(user_file, system_file) = autostart_call.arg
             /\ get_autostart_hidden(user_file) = autostart_call.hidden_before
        ELSE /\ get_autostart_hidden(user_file) = autostart_call.arg
             /\ get_autostart_enabled(user_file, system_file) = autostart_call.enabled_before

\* With no file of the user and the system's file enabling autostart,
\* set_autostart_hidden(True) has written the user's file: hidden, and
\* still enabled
C29_Witness ==
    /\ autostart_call.called /\ autostart_call.ok
    /\ autostart_call.of = "hidden" /\ autostart_call.arg
    /\ autostart_call.enabled_before /\ ~autostart_call.hidden_before
    /\ system_file.exists
    /\ user_file = FileOf(_write_autostart_file(TRUE, TRUE))
    /\ get_autostart_hidden(user_file) /\ get_autostart_enabled(user_file, system_file)

-----------------------------------------------------------------------------
(* TrayIcon: the check items Autostart and Auto Hidden.                    *)

\* _sync_autostart_state: what it sets the items to
_sync_autostart_state(user, system) ==
    [autostart |-> get_autostart_enabled(user, system),
     autohide  |-> get_autostart_hidden(user) /\ get_autostart_enabled(user, system),
     sensitive |-> get_autostart_enabled(user, system)]

\* TrayIcon.__init__ ends with _sync_autostart_state
InitTray ==
    /\ disk = <<>>
    /\ libraries = [called |-> FALSE, v |-> <<>>]
    /\ games_call = NoCall
    /\ paths_call = NoCall
    /\ shortcuts_call = NoShortcutsCall
    /\ cache = <<>>
    /\ appinfo_call = NoAppInfoCall
    /\ file_value = <<>>
    /\ text_call = NoTextCall
    /\ user_file \in UserFiles
    /\ system_file \in SystemFiles
    /\ autostart_call = NoAutostartCall
    /\ item_autostart = _sync_autostart_state(user_file, system_file).autostart
    /\ item_autohide = _sync_autostart_state(user_file, system_file).autohide
    /\ autohide_sensitive = _sync_autostart_state(user_file, system_file).sensitive
    /\ _ticks = 0
    /\ _last = None
    /\ _games = <<>>
    /\ _paths = <<>>
    /\ proc = [listable |-> TRUE, entries |-> <<>>]
    /\ infos = <<>>
    /\ current_appids = None
    /\ prev_appids = None
    /\ emitted = FALSE
    /\ poll_result = FALSE
    /\ buffer = <<>>
    /\ vdf_call = NoVdfCall
    /\ argv = <<>>
    /\ cmd_call = NoCmdCall



\* The user clicks Autostart: the item changes and emits "toggled"
OnAutostartToggled ==
    \E outcome \in Outcomes :
      \E r \in {set_autostart_enabled(user_file, ~item_autostart, outcome)} :
        /\ autostart_call' =
               [called |-> TRUE, of |-> "enabled", arg |-> ~item_autostart, ok |-> r.ok,
                enabled_before |-> get_autostart_enabled(user_file, system_file),
                hidden_before  |-> get_autostart_hidden(user_file)]
        /\ user_file' = r.file
        /\ IF r.ok
           THEN /\ item_autostart' = ~item_autostart
                /\ UNCHANGED <<item_autohide, autohide_sensitive>>
           ELSE /\ item_autostart' = _sync_autostart_state(r.file, system_file).autostart
                /\ item_autohide' = _sync_autostart_state(r.file, system_file).autohide
                /\ autohide_sensitive' = _sync_autostart_state(r.file, system_file).sensitive
        /\ UNCHANGED <<system_file, watcherVars, catalogVars, vdfVars, cmdVars, shortcutVars,
                       appinfoVars, textVars>>

\* The user clicks Auto Hidden, which an insensitive item does not allow
OnAutohideToggled ==
    /\ autohide_sensitive
    /\ \E outcome \in Outcomes :
        \E r \in {set_autostart_hidden(user_file, system_file, ~item_autohide, outcome)} :
          /\ autostart_call' =
                 [called |-> TRUE, of |-> "hidden", arg |-> ~item_autohide, ok |-> r.ok,
                  enabled_before |-> get_autostart_enabled(user_file, system_file),
                  hidden_before  |-> get_autostart_hidden(user_file)]
          /\ user_file' = r.file
          /\ IF r.ok
             THEN /\ item_autohide' = ~item_autohide
                  /\ UNCHANGED <<item_autostart, autohide_sensitive>>
             ELSE /\ item_autostart' = _sync_autostart_state(r.file, system_file).autostart
                  /\ item_autohide' = _sync_autostart_state(r.file, system_file).autohide
                  /\ autohide_sensitive' = _sync_autostart_state(r.file, system_file).sensitive
          /\ UNCHANGED <<system_file, watcherVars, catalogVars, vdfVars, cmdVars,
                         shortcutVars, appinfoVars, textVars>>

NextTray == OnAutostartToggled \/ OnAutohideToggled
SpecTray == InitTray /\ [][NextTray]_vars

\* C30: whatever the items were toggled to and whatever became of the
\* writes, Auto Hidden is sensitive exactly when autostart is enabled, and
\* checked only when autostart is enabled.
C30_AutohideFollowsAutostart ==
    /\ autohide_sensitive <=> get_autostart_enabled(user_file, system_file)
    /\ item_autohide => get_autostart_enabled(user_file, system_file)

=============================================================================
